---- MODULE Spec2Model ----
(***************************************************************************)
(* Memory subsystem of the therapy bot: the importance scorer, the        *)
(* relevance ranker, the process-local short-term cache, the memory       *)
(* collection behind MongoDBClient, and the per-user gate of              *)
(* TherapyBot.handle_message.                                             *)
(*                                                                         *)
(* Scores are kept in hundredths (0.15 is 15).  Every sum the scorer can  *)
(* form was compared in IEEE doubles against the exact sum at the         *)
(* thresholds 0.4, 0.65 and 0.7: the two agree on every combination of    *)
(* matches, so the integer comparison decides as the float one does.      *)
(*                                                                         *)
(* A text is a set of words of a small vocabulary (transliterated) plus   *)
(* a number of filler characters that are no word; `keyword in content`   *)
(* is substring search, so a word matches every lexicon entry it holds.   *)
(***************************************************************************)
EXTENDS Integers, Sequences, FiniteSets, TLC

VARIABLES
    message,            \* SpecScore: the Message handed to the scorer
    importance_score,   \* SpecScore: <<"none">> or <<"ok", score>>
    query,              \* SpecRank: current_message keywords source
    rank_limit,         \* SpecRank: limit
    all_memories,       \* SpecRank: what the store returned (a sequence)
    ranked,             \* SpecRank: <<"none">> or <<"ok", seq of memories>>
    short_term_cache,   \* MemoryManager.short_term_cache: user -> seq of entries
    now,                \* the wall clock, datetime.now()
    arrivals,           \* SpecCache: messages handed to the cache so far
    ticks,              \* the number of times the clock has been advanced
    last_op,            \* SpecCache / Spec: the operation that produced this state
    db,                 \* the memory collection: a sequence of documents
    next_id,            \* the next ObjectId the collection hands out
    calls,              \* SpecAccess: call id -> frame of a get_relevant_context call
    log,                \* SpecAccess: ids of the completed access updates
    user_states,        \* TherapyBot.user_states: user -> dict
    inv,                \* SpecBot: invocation id -> frame of a handler
    appends,            \* SpecBot: which invocation made each insert of db
    users,              \* SpecBot: the ids in the users collection
    failures,           \* SpecBot: the awaited calls that have raised
    conversations,      \* SpecBot: the conversations collection
    state,              \* SpecGraph, SpecPersonality: the frame of the running call
    analysis_cache      \* PersonalityAnalyzer.analysis_cache: key -> entry

scoreVars == <<message, importance_score>>
rankVars  == <<query, rank_limit, all_memories, ranked>>
cacheVars == <<short_term_cache, arrivals>>
clockVars == <<now, ticks>>
memVars   == <<db, next_id, calls>>
botVars   == <<user_states, inv, appends, users, failures, conversations, state,
analysis_cache>>
vars == <<message, importance_score, query, rank_limit, all_memories, ranked,
          short_term_cache, now, arrivals, ticks, last_op, db, next_id, calls, log,
          user_states, inv, appends, users, failures, conversations, state,
          analysis_cache>>

None == "None"

Min(a, b) == IF a < b THEN a ELSE b
Max(a, b) == IF a > b THEN a ELSE b

(***************************************************************************)
(* Texts.                                                                  *)
(***************************************************************************)

\* The vocabulary: kheyli (a stop word), narahatam (holds the medium entry
\* narahat), dardsar (holds the high entries dard and dardsar), tanha (high),
\* man and khodam (self-reference; khodam holds khod too), chera (an
\* interrogative marker), salam (no signal).
Vocabulary ==
    {"kheyli", "narahatam", "dardsar", "tanha", "man", "khodam", "chera", "salam"}

\* Number of characters of each word as written in the original script.
WordLen(w) ==
    CASE w = "kheyli"    -> 4
      [] w = "narahatam" -> 7
      [] w = "dardsar"   -> 5
      [] w = "tanha"     -> 4
      [] w = "man"       -> 2
      [] w = "khodam"    -> 4
      [] w = "chera"     -> 3
      [] w = "salam"     -> 4
      [] w = "user"      -> 4
      [] w = "felt"      -> 4
      [] w = "said"      -> 4
      [] w = "2024"      -> 4
      [] w = "negaran"   -> 5
      [] w = "ehsas"     -> 5
      [] w = "asabani"   -> 6
      [] w = "mashghale" -> 5
      [] w = "narahati"  -> 7
      [] w = "hayajan"   -> 5
      [] w = "chon"      -> 3
      [] OTHER           -> Len(w)

\* The lexicon entries (importance_keywords, the interrogative markers, the
\* personal pronouns, the emotion keywords, the follow-up phrases) that
\* occur in a word as substrings.  negaran, ehsas, asabani and mashghale
\* (which holds shoghl) are words of the fixed replies.
Substrings(w) ==
    CASE w = "narahatam" -> {"narahat", "rahat", "narahatam"}
      [] w = "negaran"   -> {"negaran"}
      [] w = "ehsas"     -> {"ehsas"}
      [] w = "asabani"   -> {"asabani"}
      [] w = "mashghale" -> {"shoghl"}
      [] w = "narahati"  -> {"narahat", "rahat"}
      [] w = "hayajan"   -> {"hayajan"}
      [] w = "chon"      -> {"chon"}
      [] w = "dardsar"   -> {"dard", "dardsar"}
      [] w = "tanha"     -> {"tanha"}
      [] w = "man"       -> {"man"}
      [] w = "khodam"    -> {"khodam", "khod"}
      [] w = "chera"     -> {"chera"}
      [] OTHER           -> {}

RECURSIVE SumLen(_)
SumLen(ws) ==
    IF ws = {} THEN 0
    ELSE LET w == CHOOSE x \in ws : TRUE
         IN  WordLen(w) + 1 + SumLen(ws \ {w})

\* len(content): the words, a separator after each but the last, the filler.
ContentLen(content) ==
    Max(0, SumLen(content.words) - 1) + content.pad

\* `keyword in content`
Contains(content, keyword) ==
    \E w \in content.words : keyword \in Substrings(w)

(***************************************************************************)
(* The importance scorer.                                                  *)
(***************************************************************************)

HighKeywords   == {"dard", "dardsar", "tanha", "negaran", "shoghl"}
MediumKeywords == {"narahat", "ehsas", "asabani"}
QuestionMarkers == {"chera"}
PersonalPronouns == {"man", "khodam", "khod"}

BaseScore      == 50
HighWeight     == 15
MediumWeight   == 8
ShortLength    == 100
LongLength     == 200
ShortLengthBonus == 10
LongLengthBonus  == 15
QuestionBonus  == 10
PronounBonus   == 5
DefaultEmotionWeight == 5

\* emotion_weights.get(emotion, 0.05)
EmotionWeight(emotion) ==
    CASE emotion \in {"sad", "anxious"}                -> 20
      [] emotion \in {"angry", "worried", "frustrated"} -> 15
      [] emotion = "excited"                            -> 10
      [] OTHER                                          -> DefaultEmotionWeight

\* A scorer that gives the shorter bonus to every non-empty text.
LengthBonusAnyText(n) == IF n > 0 THEN ShortLengthBonus ELSE 0

\* if len > 100: +0.1  elif len > 200: +0.15
LengthBonus(n) ==
    IF n > ShortLength THEN ShortLengthBonus
    ELSE IF n > LongLength THEN LongLengthBonus
    ELSE 0

\* A scorer that returns the sum unclamped.
NoClamp(score) == score

\* max(0.0, min(1.0, score))
Clamp(score) == Max(0, Min(100, score))

\* The sum of the adjustments, before clamping.
RawScore(m) ==
    BaseScore
    + HighWeight * Cardinality({k \in HighKeywords : Contains(m.content, k)})
    + MediumWeight * Cardinality({k \in MediumKeywords : Contains(m.content, k)})
    + (IF m.emotion_detected # None THEN EmotionWeight(m.emotion_detected) ELSE 0)
    + LengthBonus(ContentLen(m.content))
    + (IF \E k \in QuestionMarkers : Contains(m.content, k) THEN QuestionBonus ELSE 0)
    + PronounBonus * Cardinality({k \in PersonalPronouns : Contains(m.content, k)})

calculate_importance_score(m) == Clamp(RawScore(m))

MessageRoles == {"user", "assistant"}

\* The labels a Message can carry as emotion_detected: the keys of
\* emotion_weights, a label outside the table, and None.
Emotions ==
    {None, "sad", "angry", "anxious", "worried", "excited", "happy",
     "frustrated", "stable"}

\* Filler lengths that put a text under, between and over the two length
\* thresholds.
FillerShort == 110
FillerLong  == 260
Pads == {0, FillerShort, FillerLong}

\* Telegram's TEXT filter delivers non-empty texts only.
Contents ==
    {c \in [words : SUBSET Vocabulary, pad : Pads] : c.words # {} \/ c.pad > 0}

Messages ==
    [role : MessageRoles, content : Contents, timestamp : {0},
     emotion_detected : Emotions]

NoMessage == [role |-> None]

ScoreIdle == message = NoMessage /\ importance_score = <<"none">>

(***************************************************************************)
(* Time.  The clock counts seconds; a timedelta is a number of seconds,   *)
(* and its .days and .seconds attributes are its quotient and remainder   *)
(* by a day.                                                               *)
(***************************************************************************)

SecondsPerDay == 86400

TimedeltaDays(delta)    == delta \div SecondsPerDay
TimedeltaSeconds(delta) == delta % SecondsPerDay

(***************************************************************************)
(* The relevance ranker.  A final score is kept exactly, as the pair of   *)
(* a numerator in thousandths and the denominator total_words.            *)
(***************************************************************************)

StopWords == {"kheyli", "chon"}
MinKeywordLen == 2

\* _extract_keywords: the word tokens longer than two characters that are
\* no stop word.
extract_keywords(text) ==
    {w \in text.words : WordLen(w) > MinKeywordLen /\ w \notin StopWords}

\* _calculate_time_relevance, in tenths.
calculate_time_relevance(created_at, t) ==
    LET days_ago == TimedeltaDays(t - created_at)
    IN  IF days_ago <= 1 THEN 10
        ELSE IF days_ago <= 7 THEN 8
        ELSE IF days_ago <= 30 THEN 6
        ELSE IF days_ago <= 90 THEN 4
        ELSE 2

AccessDivisor == 10

\* min(1.0, access_count / 10), in tenths.
AccessFactor(access_count) == Min(AccessDivisor, access_count)

TotalWords(memory, q) ==
    Cardinality(extract_keywords(q) \cup extract_keywords(memory.content))

Overlap(memory, q) ==
    Cardinality(extract_keywords(q) \cap extract_keywords(memory.content))

\* final_score times 1000 times total_words:
\* similarity * 0.5 + importance_score * 0.3 + time_factor * 0.1
\* + access_factor * 0.1, with similarity = overlap / total_words.
FinalNum(memory, q, t) ==
    500 * Overlap(memory, q)
    + TotalWords(memory, q)
      * (3 * memory.importance_score
         + 10 * calculate_time_relevance(memory.created_at, t)
         + 10 * AccessFactor(memory.access_count))

FinalScore(memory, q, t) ==
    [num |-> FinalNum(memory, q, t), den |-> TotalWords(memory, q)]

\* Comparisons of two exact scores, and of a score with a constant in
\* thousandths.
ScoreLess(a, b)  == a.num * b.den < b.num * a.den
ScoreEq(a, b)    == a.num * b.den = b.num * a.den
ScoreAbove(a, k) == a.num > k * a.den

RelevanceCutoff == 200

\* The loop over all_memories: a memory whose keyword union with the query
\* is empty is skipped, every other one is paired with its final score.
RECURSIVE ScoredMemories(_, _, _)
ScoredMemories(memories, q, t) ==
    IF memories = <<>> THEN <<>>
    ELSE LET memory == Head(memories)
             rest   == ScoredMemories(Tail(memories), q, t)
         IN  IF TotalWords(memory, q) > 0
             THEN <<[memory |-> memory, score |-> FinalScore(memory, q, t)]>> \o rest
             ELSE rest

\* One step of a descending sort that puts an element before its equals.
InsertBeforeEquals(x, sorted) ==
    LET before == {i \in 1..Len(sorted) : ScoreLess(x.score, sorted[i].score)}
        k == Cardinality(before)
    IN  SubSeq(sorted, 1, k) \o <<x>> \o SubSeq(sorted, k + 1, Len(sorted))

\* One step of list.sort(key=score, reverse=True): x goes after every
\* element whose score is not smaller, so equals keep their order.
InsertDescending(x, sorted) ==
    LET before == {i \in 1..Len(sorted) : ~ScoreLess(sorted[i].score, x.score)}
        k == Cardinality(before)
    IN  SubSeq(sorted, 1, k) \o <<x>> \o SubSeq(sorted, k + 1, Len(sorted))

RECURSIVE SortFrom(_, _)
SortFrom(sorted, todo) ==
    IF todo = <<>> THEN sorted
    ELSE SortFrom(InsertDescending(Head(todo), sorted), Tail(todo))

\* scored_memories.sort(key=lambda x: x[1], reverse=True)
SortByScore(scored) == SortFrom(<<>>, scored)

\* A return that keeps every candidate above the cutoff, not the first
\* `limit` only.
RECURSIVE AboveCutoff(_)
AboveCutoff(scored) ==
    IF scored = <<>> THEN <<>>
    ELSE (IF ScoreAbove(Head(scored).score, RelevanceCutoff)
          THEN <<Head(scored).memory>> ELSE <<>>)
         \o AboveCutoff(Tail(scored))

UnslicedTop(scored, limit) == AboveCutoff(scored)

\* [memory for memory, score in scored_memories[:limit] if score > 0.2]
TopMemories(scored, limit) ==
    AboveCutoff(SubSeq(scored, 1, Min(limit, Len(scored))))

\* A ranker that answers an empty pool with a placeholder record.
RankOrPlaceholder(memories, q, limit, t) ==
    IF memories = <<>> THEN <<[id |-> <<"str", 0>>, content |-> q]>>
    ELSE TopMemories(SortByScore(ScoredMemories(memories, q, t)), limit)

\* The scoring part of _get_contextually_relevant_memories, after the fetch.
RankMemories(memories, q, limit, t) ==
    IF memories = <<>> THEN <<>>
    ELSE TopMemories(SortByScore(ScoredMemories(memories, q, t)), limit)

(***************************************************************************)
(* Memory documents.                                                       *)
(***************************************************************************)

SummaryCap == 200

\* A cut that takes a text of exactly 200 characters for too long.
TruncatedFromCap(content) ==
    IF ContentLen(content) >= SummaryCap
    THEN [words |-> content.words,
          pad |-> SummaryCap - (ContentLen(content) - content.pad),
          marker |-> TRUE]
    ELSE [words |-> content.words, pad |-> content.pad, marker |-> FALSE]

\* content[:200] + "..." when len(content) > 200: the words come first in
\* a text, so the cut falls in the filler.
Truncated(content) ==
    IF ContentLen(content) > SummaryCap
    THEN [words |-> content.words,
          pad |-> SummaryCap - (ContentLen(content) - content.pad),
          marker |-> TRUE]
    ELSE [words |-> content.words, pad |-> content.pad, marker |-> FALSE]

\* _create_long_term_summary: "[date] - User felt <emotion> - Said: <content>".
\* The date gives one keyword, its year (all timestamps of the model lie in
\* one year); month and day are two characters long.
create_long_term_summary(m) ==
    LET body == Truncated(m.content)
    IN  [words |-> {"2024", "said"} \cup body.words
                   \cup (IF m.emotion_detected # None
                         THEN {"user", "felt", m.emotion_detected} ELSE {}),
         pad |-> body.pad,
         marker |-> body.marker]

\* _store_short_term_memory's content: "<role>: <content> [emotion: <emotion>]"
short_term_content(m) ==
    [words |-> {m.role} \cup m.content.words
               \cup (IF m.emotion_detected # None
                     THEN {"emotion", m.emotion_detected} ELSE {}),
     pad |-> m.content.pad,
     marker |-> FALSE]

\* An _id as the collection stores it, and as the Memory model carries it
\* after convert_objectid_to_str.
ObjectId(n) == <<"ObjectId", n>>
convert_objectid_to_str(oid) == <<"str", oid[2]>>

\* A document whose last_accessed is taken before its created_at.
MemoryDocBackdated(oid, user_id, memory_type, content, score, t) ==
    [id |-> oid, user_id |-> user_id, memory_type |-> memory_type,
     content |-> content, importance_score |-> score,
     created_at |-> t, last_accessed |-> t - 1, access_count |-> 0]

\* The document store_memory inserts.
MemoryDoc(oid, user_id, memory_type, content, score, t) ==
    [id |-> oid, user_id |-> user_id, memory_type |-> memory_type,
     content |-> content, importance_score |-> score,
     created_at |-> t, last_accessed |-> t, access_count |-> 0]

\* Memory(**mem): the document with its _id converted to a string.
Memory(doc) == [doc EXCEPT !.id = convert_objectid_to_str(doc.id)]

LongTermThreshold == 70

\* A tier decision that leaves out the threshold itself.
AboveThreshold(score) == score > LongTermThreshold

\* if importance_score >= 0.7
IsLongTerm(score) == score >= LongTermThreshold

(***************************************************************************)
(* The memory collection behind MongoDBClient: a sequence of documents in  *)
(* insertion order.                                                        *)
(***************************************************************************)

\* find(...).sort([("importance_score", -1), ("last_accessed", -1)])
\* a comes strictly before b under that sort.
SortsBefore(a, b) ==
    \/ a.importance_score > b.importance_score
    \/ /\ a.importance_score = b.importance_score
       /\ a.last_accessed > b.last_accessed

\* A sequence of documents that sort may have produced.
StoreSorted(docs) ==
    \A i \in 1..(Len(docs) - 1) : ~SortsBefore(docs[i + 1], docs[i])

\* The orders the sort may return the documents at positions idx in: each
\* next document is one that no remaining document sorts strictly before.
RECURSIVE StoreOrders(_, _)
StoreOrders(collection, idx) ==
    IF idx = {} THEN {<<>>}
    ELSE UNION {{<<i>> \o rest : rest \in StoreOrders(collection, idx \ {i})} :
                   i \in {i \in idx :
                             \A j \in idx :
                                 ~SortsBefore(collection[j], collection[i])}}

PoolSize == 50
CleanupDays == 7

\* store_memory: insert_one of a fresh document.
store_memory(collection, oid, user_id, content, memory_type, score, t) ==
    Append(collection, MemoryDoc(oid, user_id, memory_type, content, score, t))

Matching(collection, user_id, memory_type) ==
    {i \in DOMAIN collection :
        /\ collection[i].user_id = user_id
        /\ collection[i].memory_type = memory_type}

\* get_relevant_memories: the user's documents of one type, sorted by
\* importance_score and then last_accessed, both descending, cut to `limit`
\* and converted to Memory objects.  Documents that tie on both keys come
\* in an order the store chooses, so this is the set of possible returns.
get_relevant_memories(collection, user_id, memory_type, limit) ==
    LET idx == Matching(collection, user_id, memory_type)
        n == Cardinality(idx)
    IN  {[i \in 1..Min(limit, n) |-> Memory(collection[f[i]])] :
            f \in StoreOrders(collection, idx)}

\* An access update that matches the document behind a Memory object and
\* stamps its created_at as well.
update_memory_stamps(collection, memory_id, t) ==
    [i \in DOMAIN collection |->
        IF convert_objectid_to_str(collection[i].id) = memory_id
        THEN [collection[i] EXCEPT !.created_at = t, !.last_accessed = t,
                                   !.access_count = @ + 1]
        ELSE collection[i]]

\* update_memory_access: update_one({"_id": memory_id}, $set last_accessed,
\* $inc access_count), memory_id being the id a Memory object carries.
update_memory_access(collection, memory_id, t) ==
    [i \in DOMAIN collection |->
        IF collection[i].id = memory_id
        THEN [collection[i] EXCEPT !.last_accessed = t, !.access_count = @ + 1]
        ELSE collection[i]]

\* update_memory_access for each memory of a list, in order.
RECURSIVE UpdateAll(_, _, _)
UpdateAll(collection, memories, t) ==
    IF memories = <<>> THEN collection
    ELSE UpdateAll(update_memory_access(collection, Head(memories).id, t),
                   Tail(memories), t)

RECURSIVE SelectDocs(_, _)
SelectDocs(collection, keep) ==
    IF collection = <<>> THEN <<>>
    ELSE (IF keep[1] THEN <<Head(collection)>> ELSE <<>>)
         \o SelectDocs(Tail(collection), Tail(keep))

\* A purge that leaves memory_type out of its filter.
cleanup_any_type(collection, user_id, days, t) ==
    SelectDocs(collection,
        [i \in DOMAIN collection |->
            ~(/\ collection[i].user_id = user_id
              /\ collection[i].created_at < t - days * SecondsPerDay)])

\* cleanup_old_short_term_memories: delete_many of the user's short-term
\* documents created before the cutoff.
cleanup_old_short_term_memories(collection, user_id, days, t) ==
    SelectDocs(collection,
        [i \in DOMAIN collection |->
            ~(/\ collection[i].user_id = user_id
              /\ collection[i].memory_type = "short_term"
              /\ collection[i].created_at < t - days * SecondsPerDay)])

(***************************************************************************)
(* The short-term cache.                                                   *)
(***************************************************************************)

CacheCap == 20
CacheMaxAge == 3600

Users == {"u", "v"}

CacheEntry(m, score) ==
    [content |-> m.content, role |-> m.role, timestamp |-> m.timestamp,
     importance |-> score, emotion |-> m.emotion_detected]

\* cache[user_id], the empty list for a user without a key.
CacheOf(cache, user_id) ==
    IF user_id \in DOMAIN cache THEN cache[user_id] ELSE <<>>

\* A trim that keeps the first 20 entries: list[:20].
KeepOldest(entries) == SubSeq(entries, 1, Min(CacheCap, Len(entries)))

\* list[-20:]
KeepNewest(entries) ==
    SubSeq(entries, Max(1, Len(entries) - CacheCap + 1), Len(entries))

\* _update_short_term_cache
update_short_term_cache(cache, user_id, m, score) ==
    LET appended == Append(CacheOf(cache, user_id), CacheEntry(m, score))
        kept == IF Len(appended) > CacheCap THEN KeepNewest(appended) ELSE appended
    IN  [u \in DOMAIN cache \cup {user_id} |->
            IF u = user_id THEN kept ELSE cache[u]]

RECURSIVE SelectSeq2(_, _)
SelectSeq2(seq, t) ==
    IF seq = <<>> THEN <<>>
    ELSE (IF TimedeltaSeconds(t - Head(seq).timestamp) < CacheMaxAge
          THEN <<Head(seq)>> ELSE <<>>)
         \o SelectSeq2(Tail(seq), t)

\* The entries _cleanup_cache keeps of one list:
\* (current_time - entry['timestamp']).seconds < 3600
FreshEntries(entries, t) == SelectSeq2(entries, t)

\* _cleanup_cache: every list is filtered, and an emptied list loses its key.
cleanup_cache(cache, t) ==
    LET kept == [u \in DOMAIN cache |-> FreshEntries(cache[u], t)]
    IN  [u \in {x \in DOMAIN cache : kept[x] # <<>>} |-> kept[u]]

(***************************************************************************)
(* SpecRank: the ranker as a function of what the store returned.          *)
(***************************************************************************)

MaxPool == 3
DefaultContextLimit == 10

RankNow == 100 * SecondsPerDay
RankAges == {0, 40 * SecondsPerDay}

RankQueries ==
    {[words |-> ws, pad |-> 0] :
        ws \in {{"salam"}, {"man"}, {"dardsar"}, {"tanha", "khodam"}}}

\* Messages that reach the long-term tier.
RankMessages ==
    {m \in [role : {"user"},
            content : {[words |-> ws, pad |-> 0] :
                          ws \in {{"dardsar"}, {"tanha", "khodam"}, {"narahatam", "khodam"}}},
            timestamp : {0},
            emotion_detected : {None, "anxious"}] :
        calculate_importance_score(m) >= LongTermThreshold}

\* The long-term documents the store can hold for one user.
RankCandidates ==
    {MemoryDoc(ObjectId(0), "u", "long_term", create_long_term_summary(m),
               calculate_importance_score(m), RankNow - age) :
        m \in RankMessages, age \in RankAges}

\* What get_relevant_memories can return: a sorted sequence of Memory
\* objects; the i-th carries the id i.
RankPools ==
    UNION {
        {[i \in 1..n |-> [Memory(f[i]) EXCEPT !.id = <<"str", i>>]] :
            f \in {g \in [1..n -> RankCandidates] : StoreSorted(g)}} :
        n \in 0..MaxPool}

RankLimits == {1, 2, DefaultContextLimit \div 2}

RankIdle ==
    /\ query = None /\ rank_limit = 0 /\ all_memories = <<>> /\ ranked = <<"none">>
CacheIdle == short_term_cache = <<>> /\ arrivals = 0
MemIdle == db = <<>> /\ next_id = 1 /\ calls = <<>>
BotIdle ==
    /\ user_states = <<>> /\ inv = <<>> /\ appends = <<>>
    /\ users = {} /\ failures = 0 /\ conversations = <<>>
    /\ state = [pc |-> "idle"]
    /\ analysis_cache = <<>>

RankDraw ==
    /\ query \in RankQueries
    /\ rank_limit \in RankLimits
    /\ all_memories \in RankPools
    /\ ranked = <<"none">>

InitRank ==
    /\ RankDraw
    /\ now = RankNow /\ ticks = 0
    /\ last_op = None /\ log = <<>>
    /\ ScoreIdle /\ CacheIdle /\ MemIdle /\ BotIdle

\* The ranker runs on the fetched memories.
Rank ==
    /\ ranked = <<"none">>
    /\ ranked' = <<"ok", RankMemories(all_memories, query, rank_limit, now)>>
    /\ UNCHANGED <<query, rank_limit, all_memories, clockVars, last_op, log,
                   scoreVars, cacheVars, memVars, botVars>>

NextRank == Rank

SpecRank == InitRank /\ [][NextRank]_vars

(***************************************************************************)
(* SpecScore: the scorer as a function of the message.                     *)
(***************************************************************************)

InitScore ==
    /\ message \in Messages
    /\ importance_score = <<"none">>
    /\ now = 0 /\ ticks = 0
    /\ last_op = None /\ log = <<>>
    /\ RankIdle /\ CacheIdle /\ MemIdle /\ BotIdle

\* The scorer runs on the message.
Score ==
    /\ importance_score = <<"none">>
    /\ importance_score' = <<"ok", calculate_importance_score(message)>>
    /\ UNCHANGED <<message, clockVars, last_op, log, rankVars, cacheVars, memVars, botVars>>

NextScore == Score

SpecScore == InitScore /\ [][NextScore]_vars

\* C2: for every message, whatever it matches, the score the scorer
\* returns lies in [0, 1].
C2_ScoreInUnitInterval ==
    importance_score[1] = "ok" =>
        (importance_score[2] >= 0 /\ importance_score[2] <= 100)

\* A message whose adjustments add up to more than 1 has been scored.
C2_Witness ==
    /\ importance_score[1] = "ok"
    /\ RawScore(message) > 100
    /\ Cardinality({k \in HighKeywords : Contains(message.content, k)}) >= 2

\* C3: the ranker returns at most `limit` records, each with a final score
\* above 0.2.
C3_AtMostTopKAboveCutoff ==
    ranked[1] = "ok" =>
        /\ Len(ranked[2]) <= rank_limit
        /\ \A i \in 1..Len(ranked[2]) :
              ScoreAbove(FinalScore(ranked[2][i], query, now), RelevanceCutoff)

\* The pool held more scored candidates than the limit, and the ranker
\* returned exactly `limit` of them.
C3_Witness ==
    /\ ranked[1] = "ok"
    /\ Len(all_memories) > rank_limit
    /\ Len(ranked[2]) = rank_limit

\* C4: the ranker's output is non-increasing in final score, and equal
\* scores come out in the order the store returned them.
C4_SortedStable ==
    ranked[1] = "ok" =>
        \A i, j \in 1..Len(ranked[2]) :
            i < j =>
                LET a == ranked[2][i]
                    b == ranked[2][j]
                    sa == FinalScore(a, query, now)
                    sb == FinalScore(b, query, now)
                IN  /\ ~ScoreLess(sa, sb)
                    /\ ScoreEq(sa, sb) => a.id[2] < b.id[2]

\* The output holds two records of equal score, and a record that the
\* store returned later but that scored higher comes out first.
C4_Witness ==
    /\ ranked[1] = "ok"
    /\ \E i, j \in 1..Len(ranked[2]) :
          /\ i < j
          /\ ScoreEq(FinalScore(ranked[2][i], query, now),
                     FinalScore(ranked[2][j], query, now))
    /\ \E i, j \in 1..Len(ranked[2]) :
          /\ i < j
          /\ ranked[2][i].id[2] > ranked[2][j].id[2]

(***************************************************************************)
(* SpecCache: appends to the short-term cache, the clock, and the sweep.   *)
(***************************************************************************)

MaxArrivals == 21
MaxTicks == 1

\* The steps the clock is advanced by: half an hour, two hours, a day and
\* ten minutes.
ClockSteps == {1800, 2 * 3600, SecondsPerDay + 600}

\* The n-th message handed to the cache: n characters of text.
NthMessage(n, t) ==
    [role |-> "user", content |-> [words |-> {}, pad |-> n], timestamp |-> t,
     emotion_detected |-> None]

InitCache ==
    /\ short_term_cache = <<>>
    /\ arrivals = 0
    /\ now = 0 /\ ticks = 0
    /\ last_op = [op |-> None]
    /\ log = <<>>
    /\ ScoreIdle /\ RankIdle /\ MemIdle /\ BotIdle

\* store_conversation_memory reaches its cache update for user_id.
CacheAppend(user_id) ==
    /\ arrivals < MaxArrivals
    /\ LET m == NthMessage(arrivals + 1, now)
       IN  short_term_cache' =
               update_short_term_cache(short_term_cache, user_id, m,
                                       calculate_importance_score(m))
    /\ arrivals' = arrivals + 1
    /\ last_op' = [op |-> "append", user_id |-> user_id]
    /\ UNCHANGED <<clockVars, log, scoreVars, rankVars, memVars, botVars>>

\* cleanup_old_memories reaches _cleanup_cache.
CacheSweep ==
    /\ short_term_cache' = cleanup_cache(short_term_cache, now)
    /\ last_op' = [op |-> "sweep"]
    /\ UNCHANGED <<arrivals, clockVars, log, scoreVars, rankVars, memVars, botVars>>

\* Time passes.
Tick ==
    /\ ticks < MaxTicks
    /\ \E d \in ClockSteps : now' = now + d
    /\ ticks' = ticks + 1
    /\ last_op' = [op |-> "tick"]
    /\ UNCHANGED <<cacheVars, log, scoreVars, rankVars, memVars, botVars>>

NextCache ==
    \/ CacheAppend("u")
    \/ CacheSweep
    \/ Tick

SpecCache == InitCache /\ [][NextCache]_vars

\* C8: a cache never holds more than 20 entries, and an append to a cache
\* of 20 removes exactly the oldest entry and leaves the other 19 and the
\* new one in arrival order.
C8_CacheCapEvictsOldest ==
    /\ [](\A u \in DOMAIN short_term_cache : Len(short_term_cache[u]) <= CacheCap)
    /\ [][\A u \in Users :
            (arrivals' = arrivals + 1 /\ last_op'.user_id = u) =>
                LET before == CacheOf(short_term_cache, u)
                    after  == CacheOf(short_term_cache', u)
                IN  /\ after[Len(after)].content.pad = arrivals'
                    /\ IF Len(before) = CacheCap
                       THEN SubSeq(after, 1, CacheCap - 1) = Tail(before)
                       ELSE SubSeq(after, 1, Len(after) - 1) = before]_vars

\* A 21st entry has been appended to a cache that held 20.
C8_Witness ==
    /\ last_op.op = "append"
    /\ arrivals = CacheCap + 1
    /\ Len(CacheOf(short_term_cache, "u")) = CacheCap
    /\ short_term_cache["u"][1].content.pad = 2

\* C9: right after the sweep no cache holds an entry whose age is an hour
\* or more.
C9_SweepRemovesEveryOldEntry ==
    last_op.op = "sweep" =>
        \A u \in DOMAIN short_term_cache :
            \A i \in 1..Len(short_term_cache[u]) :
                now - short_term_cache[u][i].timestamp < CacheMaxAge

(***************************************************************************)
(* Spec: the public operations of MemoryManager on the collection and the  *)
(* cache, for two users.  A persistence call may fail, which the callers'  *)
(* except clauses turn into the degraded return.                           *)
(***************************************************************************)

MaxStores == 2
MaxMemTicks == 1

\* Eight days and two hours: past the purge window, and past the cache's
\* hour by the clock's time of day.
MemClockSteps == {8 * SecondsPerDay + 2 * 3600}

\* The messages handed to store_conversation_memory: one just under the
\* long-term threshold (0.65), one at it (0.7), and two above it (0.8), of
\* exactly 200 characters and of more.
StoreContents ==
    {[words |-> {"tanha"}, pad |-> 0], [words |-> {"tanha", "man"}, pad |-> 0],
     [words |-> {"tanha", "man"}, pad |-> SummaryCap - 7],
     [words |-> {"tanha", "man"}, pad |-> FillerLong]}

\* Message(role=USER, content=...): the timestamp defaults to now.
UserMessage(content, t) ==
    [role |-> "user", content |-> content, timestamp |-> t,
     emotion_detected |-> None]

\* Every long-term document of this specification holds the same words, so
\* one query stands for all: the ranker's dependence on the query is
\* SpecRank's subject.
ContextQueries == {[words |-> {"tanha"}, pad |-> 0]}

ContextLimits == {2, DefaultContextLimit}

\* Both users store; the reads and the purges under observation are u's (the
\* operations treat every user alike).
ObservedUsers == {"u"}

InitMem ==
    /\ db = <<>>
    /\ next_id = 1
    /\ calls = <<>>
    /\ short_term_cache = <<>>
    /\ arrivals = 0
    /\ now = 0 /\ ticks = 0
    /\ last_op = [op |-> None]
    /\ log = <<>>
    /\ ScoreIdle /\ RankIdle /\ BotIdle

\* A store that updates the cache before its inserts.
StoreCacheFirst(user_id, m, fail) ==
    LET score == calculate_importance_score(m)
        db1 == store_memory(db, ObjectId(next_id), user_id, short_term_content(m),
                            "short_term", score, now)
        db2 == store_memory(db1, ObjectId(next_id + 1), user_id,
                            create_long_term_summary(m), "long_term", score, now)
    IN  /\ fail = "long" => IsLongTerm(score)
        /\ short_term_cache' =
               update_short_term_cache(short_term_cache, user_id, m, score)
        /\ \/ /\ fail = "short"
              /\ UNCHANGED <<db, next_id>>
           \/ /\ fail = "long"
              /\ db' = db1
              /\ next_id' = next_id + 1
           \/ /\ fail = "none"
              /\ db' = IF IsLongTerm(score) THEN db2 ELSE db1
              /\ next_id' = IF IsLongTerm(score) THEN next_id + 2 ELSE next_id + 1

\* store_conversation_memory(user_id, m) on the collection and the cache.
\* `fail` names the persistence call that raises: "short" (the short-term
\* insert), "long" (the long-term insert, reached only by a message at or
\* above the threshold) or "none".
StoreEffect(user_id, m, fail) ==
    LET score == calculate_importance_score(m)
        db1 == store_memory(db, ObjectId(next_id), user_id, short_term_content(m),
                            "short_term", score, now)
        db2 == store_memory(db1, ObjectId(next_id + 1), user_id,
                            create_long_term_summary(m), "long_term", score, now)
    IN  /\ fail = "long" => IsLongTerm(score)
        /\ \/ /\ fail = "short"
              /\ UNCHANGED <<db, next_id, short_term_cache>>
           \/ /\ fail = "long"
              /\ db' = db1
              /\ next_id' = next_id + 1
              /\ UNCHANGED short_term_cache
           \/ /\ fail = "none"
              /\ db' = IF IsLongTerm(score) THEN db2 ELSE db1
              /\ next_id' = IF IsLongTerm(score) THEN next_id + 2 ELSE next_id + 1
              /\ short_term_cache' =
                     update_short_term_cache(short_term_cache, user_id, m, score)

\* store_conversation_memory(user_id, m) as an operation of its own.
StoreConversationMemory(user_id, m, fail) ==
    /\ arrivals < MaxStores
    /\ StoreEffect(user_id, m, fail)
    /\ arrivals' = arrivals + 1
    /\ last_op' = [op |-> "store", user_id |-> user_id, message |-> m,
                   score |-> calculate_importance_score(m),
                   result |-> (fail = "none")]
    /\ UNCHANGED <<calls, clockVars, log, scoreVars, rankVars, botVars>>

\* A context that lists the background items first.
BackgroundFirst(short, long) ==
    [k \in 1..Len(long) |-> <<"Background", long[k].content>>]
    \o [k \in 1..Len(short) |-> <<"Recent", short[k].content>>]

\* context_items: f"Recent: {memory.content}" for each short-term memory,
\* then f"Background: {memory.content}" for each long-term one.
ContextItems(short, long) ==
    [k \in 1..Len(short) |-> <<"Recent", short[k].content>>]
    \o [k \in 1..Len(long) |-> <<"Background", long[k].content>>]

\* get_relevant_context(user_id, current_message, limit).  `fail` names the
\* fetch that raises: "short" empties the whole result, "long" is caught in
\* _get_contextually_relevant_memories and empties the long-term half.
GetRelevantContext(user_id, current_message, limit, fail) ==
    \/ /\ fail = "short"
       /\ last_op' = [op |-> "context", user_id |-> user_id, limit |-> limit,
                      failed |-> fail, items |-> <<>>,
                      result |-> FALSE, short |-> <<>>, long |-> <<>>]
       /\ UNCHANGED <<db, next_id, calls, cacheVars, clockVars, log,
                      scoreVars, rankVars, botVars>>
    \/ /\ fail # "short"
       /\ \E short \in get_relevant_memories(db, user_id, "short_term", limit \div 2) :
             LET db1 == UpdateAll(db, short, now)
             IN  \E pool \in get_relevant_memories(db1, user_id, "long_term", PoolSize) :
                     LET long == IF fail = "long" THEN <<>>
                                 ELSE RankMemories(pool, current_message,
                                                   limit \div 2, now)
                     IN  /\ db' = UpdateAll(db1, long, now)
                         /\ last_op' = [op |-> "context", user_id |-> user_id,
                                        limit |-> limit, failed |-> fail,
                                        items |-> ContextItems(short, long),
                                        result |-> TRUE,
                                        short |-> short, long |-> long]
       /\ UNCHANGED <<next_id, calls, cacheVars, clockVars, log,
                      scoreVars, rankVars, botVars>>

\* cleanup_old_memories(user_id): the purge of the user's old short-term
\* documents, then the cache sweep; a failing purge skips the sweep.
CleanupOldMemories(user_id, fail) ==
    /\ IF fail
       THEN UNCHANGED <<db, short_term_cache>>
       ELSE /\ db' = cleanup_old_short_term_memories(db, user_id, CleanupDays, now)
            /\ short_term_cache' = cleanup_cache(short_term_cache, now)
    /\ last_op' = [op |-> "cleanup", user_id |-> user_id, result |-> ~fail]
    /\ UNCHANGED <<next_id, calls, arrivals, clockVars, log,
                   scoreVars, rankVars, botVars>>

\* Time passes.
MemTick ==
    /\ ticks < MaxMemTicks
    /\ \E d \in MemClockSteps : now' = now + d
    /\ ticks' = ticks + 1
    /\ last_op' = [op |-> "tick"]
    /\ UNCHANGED <<memVars, cacheVars, log, scoreVars, rankVars, botVars>>

Next ==
    \/ \E user_id \in Users, content \in StoreContents,
            fail \in {"none", "short", "long"} :
          StoreConversationMemory(user_id, UserMessage(content, now), fail)
    \/ \E user_id \in ObservedUsers, q \in ContextQueries, limit \in ContextLimits,
            fail \in {"none", "short", "long"} :
          GetRelevantContext(user_id, q, limit, fail)
    \/ \E user_id \in ObservedUsers, fail \in BOOLEAN :
          CleanupOldMemories(user_id, fail)
    \/ MemTick

Spec == InitMem /\ [][Next]_vars

\* The documents a step appended to the collection.
Added == SubSeq(db', Len(db) + 1, Len(db'))

\* C1: a store call that completes without a store failure appends exactly
\* one SHORT_TERM record whatever the score, and a LONG_TERM record as well
\* if and only if the computed score is at least 0.7.
C1_TierDecision ==
    [][(last_op'.op = "store" /\ last_op'.result) =>
          LET score == calculate_importance_score(last_op'.message)
          IN  /\ Len(db') >= Len(db)
              /\ SubSeq(db', 1, Len(db)) = db
              /\ \A i \in 1..Len(Added) :
                    /\ Added[i].user_id = last_op'.user_id
                    /\ Added[i].importance_score = score
              /\ Cardinality({i \in 1..Len(Added) :
                                 Added[i].memory_type = "short_term"}) = 1
              /\ Cardinality({i \in 1..Len(Added) :
                                 Added[i].memory_type = "long_term"})
                    = (IF score >= LongTermThreshold THEN 1 ELSE 0)]_vars

\* A message scoring exactly 0.7 has been stored, and the collection ends
\* with its short-term and its long-term record.
C1_Witness ==
    /\ last_op.op = "store" /\ last_op.result
    /\ last_op.score = LongTermThreshold
    /\ Len(db) >= 2
    /\ db[Len(db) - 1].memory_type = "short_term"
    /\ db[Len(db)].memory_type = "long_term"

\* The documents of the collection that the memories of a list were read
\* from.
Sources(memories) ==
    {i \in DOMAIN db :
        \E k \in 1..Len(memories) :
            memories[k].id = convert_objectid_to_str(db[i].id)}

\* C5: after get_relevant_context returns successfully, every record it
\* returned has its stored access_count one higher than before the call and
\* its last_accessed set to the time of the access.
C5_ReturnedRecordsMarkedAccessed ==
    [][(last_op'.op = "context" /\ last_op'.result) =>
          \A i \in Sources(last_op'.short \o last_op'.long) :
              /\ i \in DOMAIN db'
              /\ db'[i].access_count = db[i].access_count + 1
              /\ db'[i].last_accessed = now]_vars

Present(collection, oid) == \E j \in DOMAIN collection : collection[j].id = oid

\* C7: no step deletes a LONG_TERM record, and a purge for owner u deletes
\* exactly u's SHORT_TERM records created more than the window (7 days) ago.
C7_PurgeShortTermOnly ==
    [][/\ \A i \in DOMAIN db :
            db[i].memory_type = "long_term" => Present(db', db[i].id)
       /\ (last_op'.op = "cleanup" /\ last_op'.result) =>
            \A i \in DOMAIN db :
                Present(db', db[i].id) <=>
                    ~(/\ db[i].user_id = last_op'.user_id
                      /\ db[i].memory_type = "short_term"
                      /\ now - db[i].created_at > CleanupDays * SecondsPerDay)]_vars

\* A purge for u has run on a collection that held a short-term and a
\* long-term record of u, both older than the window: the long-term one
\* is still there, the short-term one is gone.
C7_Witness ==
    /\ last_op.op = "cleanup" /\ last_op.result /\ last_op.user_id = "u"
    /\ \E i \in DOMAIN db :
          /\ db[i].user_id = "u" /\ db[i].memory_type = "long_term"
          /\ now - db[i].created_at > CleanupDays * SecondsPerDay
          /\ ~Present(db, ObjectId(db[i].id[2] - 1))
    /\ \A i \in DOMAIN db :
          (db[i].user_id = "u" /\ db[i].memory_type = "short_term")
              => now - db[i].created_at <= CleanupDays * SecondsPerDay

(***************************************************************************)
(* SpecAccess: get_relevant_context step by step.  Each await of the       *)
(* coroutine is a point where another call may run, so a call is a frame   *)
(* that advances one await at a time: the short-term fetch, one            *)
(* update_memory_access per memory, the long-term fetch with the ranking   *)
(* that follows it synchronously, one update_memory_access per ranked      *)
(* memory, and the return.  log holds the id of every update_memory_access *)
(* that has completed, in completion order.                                *)
(***************************************************************************)

MaxCalls == 2
AccessStores == 1

\* A message at the long-term threshold: both tiers get a document.
AccessContents == {[words |-> {"tanha", "man"}, pad |-> 0]}

\* The frame of a call that has just been entered.
ContextCall(user_id, current_message, limit) ==
    [user_id |-> user_id, current_message |-> current_message, limit |-> limit,
     pc |-> "fetch_short", pending |-> <<>>, context_items |-> <<>>,
     all_memories |-> <<>>, completed |-> 0]

\* A call of get_relevant_context is entered.
BeginContext(user_id, current_message, limit) ==
    /\ Len(calls) < MaxCalls
    /\ calls' = Append(calls, ContextCall(user_id, current_message, limit))
    /\ last_op' = [op |-> "begin"]
    /\ UNCHANGED <<db, next_id, cacheVars, clockVars, log,
                   scoreVars, rankVars, botVars>>

\* short_term_memories = await get_relevant_memories(SHORT_TERM, limit//2);
\* a fetch that raises ends the call with [].
FetchShort(c, fail) ==
    /\ c \in DOMAIN calls
    /\ calls[c].pc = "fetch_short"
    /\ IF fail
       THEN calls' = [calls EXCEPT ![c].pc = "done"]
       ELSE \E short \in get_relevant_memories(db, calls[c].user_id, "short_term",
                                                calls[c].limit \div 2) :
               calls' = [calls EXCEPT ![c].pending = short,
                                      ![c].pc = "update_short"]
    /\ last_op' = [op |-> "fetch_short"]
    /\ UNCHANGED <<db, next_id, cacheVars, clockVars, log,
                   scoreVars, rankVars, botVars>>

\* One turn of either loop: the memory's content joins context_items and
\* await update_memory_access(memory.id) completes.
UpdateAccess(c) ==
    /\ c \in DOMAIN calls
    /\ calls[c].pc \in {"update_short", "update_long"}
    /\ calls[c].pending # <<>>
    /\ LET memory == Head(calls[c].pending)
       IN  /\ db' = update_memory_access(db, memory.id, now)
           /\ log' = Append(log, memory.id)
           /\ calls' = [calls EXCEPT ![c].pending = Tail(@),
                                     ![c].context_items = Append(@, memory.content)]
    /\ last_op' = [op |-> "update"]
    /\ UNCHANGED <<next_id, cacheVars, clockVars, scoreVars, rankVars, botVars>>

\* _get_contextually_relevant_memories: the long-term fetch and the ranking
\* of what it returned; a fetch that raises gives no long-term memories.
\* completed records how many access updates had completed when the pool
\* was read.
RankLong(c, fail) ==
    /\ c \in DOMAIN calls
    /\ calls[c].pc = "update_short"
    /\ calls[c].pending = <<>>
    /\ IF fail
       THEN calls' = [calls EXCEPT ![c].pc = "update_long",
                                   ![c].completed = Len(log)]
       ELSE \E pool \in get_relevant_memories(db, calls[c].user_id, "long_term",
                                               PoolSize) :
               calls' = [calls EXCEPT
                            ![c].all_memories = pool,
                            ![c].completed = Len(log),
                            ![c].pending =
                                RankMemories(pool, calls[c].current_message,
                                             calls[c].limit \div 2, now),
                            ![c].pc = "update_long"]
    /\ last_op' = [op |-> "rank"]
    /\ UNCHANGED <<db, next_id, cacheVars, clockVars, log,
                   scoreVars, rankVars, botVars>>

\* return context_items
ReturnContext(c) ==
    /\ c \in DOMAIN calls
    /\ calls[c].pc = "update_long"
    /\ calls[c].pending = <<>>
    /\ calls' = [calls EXCEPT ![c].pc = "done"]
    /\ last_op' = [op |-> "return"]
    /\ UNCHANGED <<db, next_id, cacheVars, clockVars, log,
                   scoreVars, rankVars, botVars>>

\* A store of the user's message, as in Spec, while there is room.
AccessStore(user_id, content, fail) ==
    /\ arrivals < AccessStores
    /\ StoreConversationMemory(user_id, UserMessage(content, now), fail)

NextAccess ==
    \/ \E content \in AccessContents, fail \in {"none", "short", "long"} :
          AccessStore("u", content, fail)
    \/ \E q \in ContextQueries : BeginContext("u", q, 2)
    \/ \E c \in 1..MaxCalls, fail \in BOOLEAN : FetchShort(c, fail)
    \/ \E c \in 1..MaxCalls : UpdateAccess(c)
    \/ \E c \in 1..MaxCalls, fail \in BOOLEAN : RankLong(c, fail)
    \/ \E c \in 1..MaxCalls : ReturnContext(c)

SpecAccess == InitMem /\ [][NextAccess]_vars

\* The number of completed access updates for a memory among the first n.
CompletedFor(memory_id, n) ==
    Cardinality({j \in 1..n : log[j] = memory_id})

\* C6: every rank call computes a record's accessFactor from the
\* access_count the record had at first (0) plus the access increments for
\* it that completed before the call read the pool: calls with no increment
\* completing in between use the same count, and a call after a completed
\* increment uses the incremented count.
C6_RankSeesCompletedIncrements ==
    \A c \in DOMAIN calls :
        \A k \in DOMAIN calls[c].all_memories :
            calls[c].all_memories[k].access_count
                = CompletedFor(calls[c].all_memories[k].id, calls[c].completed)

(***************************************************************************)
(* The user analysis node's emotion detection and follow-up decision, and  *)
(* the response generation node's fallback table.                          *)
(***************************************************************************)

\* UserAnalysisNode.emotion_keywords in the order of the dict: the first
\* key found in the message decides.
EmotionKeywords ==
    <<<<"khoshhal", "happy">>, <<"shad", "happy">>, <<"khub", "happy">>,
      <<"narahat", "sad">>, <<"ghamgin", "sad">>, <<"afsorde", "sad">>,
      <<"asabani", "angry">>, <<"asabi", "angry">>, <<"khashmgin", "angry">>,
      <<"negaran", "anxious">>, <<"moztareb", "anxious">>, <<"tarside", "anxious">>,
      <<"aram", "calm">>, <<"rahat", "calm">>,
      <<"hayajan", "excited">>, <<"hayajanzade", "excited">>>>

\* The EmotionalState a keyword's emotion is converted to.
EmotionalStateOf(emotion) ==
    CASE emotion = "happy"   -> "excited"
      [] emotion = "sad"     -> "depressed"
      [] emotion = "angry"   -> "stable"
      [] emotion = "anxious" -> "anxious"
      [] emotion = "calm"    -> "stable"
      [] emotion = "excited" -> "excited"

AnxiousLength == 200

\* _detect_emotional_state.  The texts hold no '!' and no Persian question
\* mark, so of the punctuation tests only the length test can succeed.
detect_emotional_state(content) ==
    LET hits == {k \in DOMAIN EmotionKeywords :
                    Contains(content, EmotionKeywords[k][1])}
    IN  IF hits # {}
        THEN EmotionalStateOf(
                 EmotionKeywords[CHOOSE k \in hits : \A j \in hits : k <= j][2])
        ELSE IF /\ \E w \in {"chera", "chegune", "chetor"} : Contains(content, w)
                /\ \E w \in {"moshkel", "dard", "narahat"} : Contains(content, w)
        THEN "confused"
        ELSE IF ContentLen(content) > AnxiousLength THEN "anxious"
        ELSE "stable"

VagueLength == 20
FirstContactLength == 50

\* _should_ask_follow_up: any of the four triggers.
should_ask_follow_up(content, context, emotional_state) ==
    \/ ContentLen(content) < VagueLength
    \/ /\ emotional_state \in {"sad", "anxious", "angry"}
       /\ ~Contains(content, "chon")
    \/ \E phrase \in {"khub nistam", "bad hal", "moshkel daram", "narahatam",
                      "khasteam"} : Contains(content, phrase)
    \/ Len(context) = 0 /\ ContentLen(content) < FirstContactLength

\* The keys of the fallback table.
FallbackKeys == {"sad", "anxious", "angry", "excited", "confused"}

\* The texts of the fallback table and its default, by their length and by
\* the lexicon entries they hold: the reply for anxious holds ehsas and
\* negaran, the one for angry asabani, the one for confused mashghale.
FallbackText(key) ==
    CASE key = "sad"      -> [words |-> {}, pad |-> 63]
      [] key = "anxious"  -> [words |-> {"ehsas", "negaran"}, pad |-> 45]
      [] key = "angry"    -> [words |-> {"asabani"}, pad |-> 47]
      [] key = "excited"  -> [words |-> {}, pad |-> 44]
      [] key = "confused" -> [words |-> {"mashghale"}, pad |-> 39]
      [] OTHER            -> [words |-> {}, pad |-> 24]

\* fallback_responses.get(emotional_state, default)
FallbackFor(emotional_state) ==
    IF emotional_state \in FallbackKeys THEN FallbackText(emotional_state)
    ELSE FallbackText("default")

\* _generate_fallback_response
generate_fallback_response(analysis_result) ==
    [response_text |-> FallbackFor(analysis_result.emotional_state),
     requires_follow_up |-> TRUE,
     emotion_detected |-> analysis_result.emotional_state,
     origin |-> "fallback"]

(***************************************************************************)
(* SpecBot: TherapyBot.handle_message and start_command as coroutines.  An *)
(* invocation is a frame whose pc names the await it is suspended at; a    *)
(* step is the completion of that await followed by the synchronous code   *)
(* up to the next await.  Awaits that touch no shared state are folded     *)
(* into the step before them.  Frames are numbered in the order the        *)
(* updates arrived.  appends names, for every document of db, the          *)
(* invocation and the message that inserted it.  The users collection      *)
(* outlives the process: it starts empty or with u registered.             *)
(***************************************************************************)

MaxInvocations == 3
MaxFailures == 2

\* One owner: the handlers treat every user alike and share nothing across
\* users but the collections.
BotUsers == {"u"}

\* The texts users send: one that reaches the long-term tier (0.7).
BotTexts == {[words |-> {"tanha", "man"}, pad |-> 0]}

\* What the completion (or the fallback) answers: a text of the base score.
BotResponses == {[words |-> {"salam"}, pad |-> 0]}

\* The text a frame holds before it has one.
NoText == [words |-> {}, pad |-> 0]

\* Message(role=ASSISTANT, content=...): no emotion.
AssistantMessage(content, t) ==
    [role |-> "assistant", content |-> content, timestamp |-> t,
     emotion_detected |-> None]

\* str(result.inserted_id) of a conversation document, and the absence of
\* the 'conversation_id' key.
ConversationId(n) == <<"conversation", n>>
NoConversationId == <<"none">>

\* self.user_states.get(user_id, {}).get('waiting_for_response', False)
WaitingForResponse(states, user_id) ==
    user_id \in DOMAIN states /\ states[user_id].waiting_for_response

\* self.user_states[user_id][key] = value, after the `not in` test that
\* puts an empty dict in place for a user without one.
SetState(states, user_id, key, value) ==
    LET old == IF user_id \in DOMAIN states THEN states[user_id]
               ELSE [waiting_for_response |-> FALSE, conversation_id |-> NoConversationId]
        new == IF key = "waiting_for_response"
               THEN [old EXCEPT !.waiting_for_response = value]
               ELSE [old EXCEPT !.conversation_id = value]
    IN  [u \in DOMAIN states \cup {user_id} |->
            IF u = user_id THEN new ELSE states[u]]

\* A finally clause that leaves the flag as it found it.
KeepWaiting(states, user_id) == states

\* finally: if user_id in self.user_states: waiting_for_response = False
ClearWaiting(states, user_id) ==
    IF user_id \in DOMAIN states
    THEN SetState(states, user_id, "waiting_for_response", FALSE)
    ELSE states

\* user_id not in user_states or 'conversation_id' not in user_states[user_id]
NoConversation(states, user_id) ==
    user_id \notin DOMAIN states \/ states[user_id].conversation_id = NoConversationId

\* The frame of an invocation that has just been entered.
Invocation(user_id, message_text) ==
    [handler |-> "handle_message", user_id |-> user_id,
     message_text |-> message_text, pc |-> "get_user",
     conversation_id |-> NoConversationId, response |-> NoText, role |-> None,
     exit |-> "none"]

\* The frame of a /start that has just been entered.
StartInvocation(user_id) ==
    [handler |-> "start_command", user_id |-> user_id, message_text |-> NoText,
     pc |-> "start_user", conversation_id |-> NoConversationId,
     response |-> NoText, role |-> None, exit |-> "none"]

\* The message _store_conversation_memory is storing in a frame.
CurrentMessage(f) ==
    IF f.role = "user"
    THEN [UserMessage(f.message_text, now) EXCEPT
             !.emotion_detected = detect_emotional_state(f.message_text)]
    ELSE AssistantMessage(f.response, now)

\* What follows the return of store_conversation_memory: the assistant's
\* message after the user's, the conversation document after both.
AfterStore(f) ==
    IF f.role = "user"
    THEN [f EXCEPT !.role = "assistant", !.pc = "store_short"]
    ELSE [f EXCEPT !.role = None, !.pc = "save_user"]

InitBot ==
    /\ user_states = <<>>
    /\ inv = <<>>
    /\ appends = <<>>
    /\ users \in {{}, {"u"}}
    /\ failures = 0
    /\ conversations = <<>>
    /\ state = [pc |-> "idle"]
    /\ analysis_cache = <<>>
    /\ db = <<>> /\ next_id = 1 /\ calls = <<>> /\ log = <<>>
    /\ short_term_cache = <<>> /\ arrivals = 0
    /\ now = 0 /\ ticks = 0
    /\ last_op = [op |-> None]
    /\ ScoreIdle /\ RankIdle

\* A text message arrives and handle_message is entered.
Arrive(user_id, message_text) ==
    /\ Len(inv) < MaxInvocations
    /\ inv' = Append(inv, Invocation(user_id, message_text))
    /\ UNCHANGED <<state, user_states, appends, users, failures, conversations,
                   memVars, log, cacheVars, clockVars, last_op, scoreVars, rankVars,
                   analysis_cache>>

\* A /start arrives and start_command is entered.
ArriveStart(user_id) ==
    /\ Len(inv) < MaxInvocations
    /\ inv' = Append(inv, StartInvocation(user_id))
    /\ UNCHANGED <<state, user_states, appends, users, failures, conversations,
                   memVars, log, cacheVars, clockVars, last_op, scoreVars, rankVars,
                   analysis_cache>>

\* start_command up to the welcome message: the user document exists.
StartUser(i) ==
    /\ i \in DOMAIN inv
    /\ inv[i].pc = "start_user"
    /\ users' = users \cup {inv[i].user_id}
    /\ inv' = [inv EXCEPT ![i].pc = "start_state"]
    /\ UNCHANGED <<state, user_states, appends, failures, conversations,
                   memVars, log, cacheVars, clockVars, last_op, scoreVars, rankVars,
                   analysis_cache>>

\* start_command after the welcome message: user_states[user_id] is a
\* fresh dict.
StartState(i) ==
    /\ i \in DOMAIN inv
    /\ inv[i].pc = "start_state"
    /\ inv' = [inv EXCEPT ![i].pc = "done"]
    /\ user_states' =
           [u \in DOMAIN user_states \cup {inv[i].user_id} |->
               IF u = inv[i].user_id
               THEN [waiting_for_response |-> FALSE,
                     conversation_id |-> NoConversationId]
               ELSE user_states[u]]
    /\ UNCHANGED <<state, appends, users, failures, conversations,
                   memVars, log, cacheVars, clockVars, last_op, scoreVars, rankVars,
                   analysis_cache>>

\* get_user returns: an unknown user is told to /start, a user the bot is
\* waiting on is told to wait, anyone else is marked waiting.
GetUser(i) ==
    /\ i \in DOMAIN inv
    /\ inv[i].pc = "get_user"
    /\ LET user_id == inv[i].user_id
       IN  IF user_id \notin users
           THEN /\ inv' = [inv EXCEPT ![i].pc = "reply_start"]
                /\ UNCHANGED user_states
           ELSE IF WaitingForResponse(user_states, user_id)
           THEN /\ inv' = [inv EXCEPT ![i].pc = "reply_wait"]
                /\ UNCHANGED user_states
           ELSE /\ inv' = [inv EXCEPT ![i].pc = "typing"]
                /\ user_states' =
                       SetState(user_states, user_id, "waiting_for_response", TRUE)
    /\ UNCHANGED <<state, appends, users, failures, conversations,
                   memVars, log, cacheVars, clockVars, last_op, scoreVars, rankVars,
                   analysis_cache>>

\* The reply of an early return has been sent; the finally clause runs.
ReplyAndReturn(i) ==
    /\ i \in DOMAIN inv
    /\ inv[i].pc \in {"reply_start", "reply_wait"}
    /\ inv' = [inv EXCEPT ![i].pc = "done", ![i].exit = "early"]
    /\ user_states' = ClearWaiting(user_states, inv[i].user_id)
    /\ UNCHANGED <<state, appends, users, failures, conversations,
                   memVars, log, cacheVars, clockVars, last_op, scoreVars, rankVars,
                   analysis_cache>>

\* The typing indicator and the delay are over: the conversation is
\* created if the user has none, else process_message starts.
Delay(i) ==
    /\ i \in DOMAIN inv
    /\ inv[i].pc = "typing"
    /\ inv' = IF NoConversation(user_states, inv[i].user_id)
              THEN [inv EXCEPT ![i].pc = "create_conversation"]
              ELSE [inv EXCEPT ![i].pc = "analyse",
                               ![i].conversation_id =
                                   user_states[inv[i].user_id].conversation_id]
    /\ UNCHANGED <<state, user_states, appends, users, failures, conversations,
                   memVars, log, cacheVars, clockVars, last_op, scoreVars, rankVars,
                   analysis_cache>>

\* create_conversation returns the id of a fresh conversation document, or
\* raises: the except clause around the graph then sends a fallback reply.
CreateConversation(i, fail) ==
    /\ i \in DOMAIN inv
    /\ inv[i].pc = "create_conversation"
    /\ fail => failures < MaxFailures
    /\ failures' = IF fail THEN failures + 1 ELSE failures
    /\ IF fail
       THEN /\ inv' = [inv EXCEPT ![i].pc = "reply", ![i].exit = "graph_failure"]
            /\ UNCHANGED <<conversations, user_states>>
       ELSE LET conversation_id == ConversationId(Len(conversations) + 1)
            IN  /\ conversations' =
                       Append(conversations,
                              [user_id |-> inv[i].user_id, messages |-> <<>>])
                /\ user_states' = SetState(user_states, inv[i].user_id,
                                           "conversation_id", conversation_id)
                /\ inv' = [inv EXCEPT ![i].pc = "analyse",
                                      ![i].conversation_id = conversation_id]
    /\ UNCHANGED <<state, appends, users,
                   memVars, log, cacheVars, clockVars, last_op, scoreVars, rankVars,
                   analysis_cache>>

\* The user analysis node and the response generation node up to
\* _store_conversation_memory: get_relevant_context with the default limit
\* reads the user's memories and issues its access updates, the response is
\* there, and the user's message is about to be stored.
Analyse(i, response) ==
    /\ i \in DOMAIN inv
    /\ inv[i].pc = "analyse"
    /\ \E short \in get_relevant_memories(db, inv[i].user_id, "short_term",
                                          DefaultContextLimit \div 2) :
          LET db1 == UpdateAll(db, short, now)
          IN  \E pool \in get_relevant_memories(db1, inv[i].user_id, "long_term",
                                                PoolSize) :
                  LET long == RankMemories(pool, inv[i].message_text,
                                           DefaultContextLimit \div 2, now)
                  IN  db' = UpdateAll(db1, long, now)
    /\ inv' = [inv EXCEPT ![i].response = response, ![i].role = "user",
                          ![i].pc = "store_short"]
    /\ UNCHANGED <<state, user_states, appends, users, failures, conversations,
                   next_id, calls, log, cacheVars, clockVars, last_op,
                   scoreVars, rankVars, analysis_cache>>

\* store_conversation_memory, the short-term insert: a failure ends the
\* store of this message; a message at the threshold goes on to the
\* long-term insert, any other to the cache.
StoreShort(i, fail) ==
    /\ i \in DOMAIN inv
    /\ fail => failures < MaxFailures
    /\ failures' = IF fail THEN failures + 1 ELSE failures
    /\ inv[i].pc = "store_short"
    /\ LET f == inv[i]
           m == CurrentMessage(f)
           score == calculate_importance_score(m)
       IN  IF fail
           THEN /\ inv' = [inv EXCEPT ![i] = AfterStore(f)]
                /\ UNCHANGED <<db, next_id, appends, short_term_cache>>
           ELSE /\ db' = store_memory(db, ObjectId(next_id), f.user_id,
                                      short_term_content(m), "short_term", score, now)
                /\ next_id' = next_id + 1
                /\ appends' = Append(appends, [inv |-> i, role |-> f.role,
                                               memory_type |-> "short_term"])
                /\ IF IsLongTerm(score)
                   THEN /\ inv' = [inv EXCEPT ![i].pc = "store_long"]
                        /\ UNCHANGED short_term_cache
                   ELSE /\ inv' = [inv EXCEPT ![i] = AfterStore(f)]
                        /\ short_term_cache' =
                               update_short_term_cache(short_term_cache,
                                                       f.user_id, m, score)
    /\ UNCHANGED <<state, user_states, users, conversations, calls, log,
                   arrivals, clockVars, last_op, scoreVars, rankVars, analysis_cache>>

\* store_conversation_memory, the long-term insert and the cache update.
StoreLong(i, fail) ==
    /\ i \in DOMAIN inv
    /\ fail => failures < MaxFailures
    /\ failures' = IF fail THEN failures + 1 ELSE failures
    /\ inv[i].pc = "store_long"
    /\ LET f == inv[i]
           m == CurrentMessage(f)
           score == calculate_importance_score(m)
       IN  /\ inv' = [inv EXCEPT ![i] = AfterStore(f)]
           /\ IF fail
              THEN UNCHANGED <<db, next_id, appends, short_term_cache>>
              ELSE /\ db' = store_memory(db, ObjectId(next_id), f.user_id,
                                         create_long_term_summary(m), "long_term",
                                         score, now)
                   /\ next_id' = next_id + 1
                   /\ appends' = Append(appends, [inv |-> i, role |-> f.role,
                                                  memory_type |-> "long_term"])
                   /\ short_term_cache' =
                          update_short_term_cache(short_term_cache,
                                                  f.user_id, m, score)
    /\ UNCHANGED <<state, user_states, users, conversations, calls, log,
                   arrivals, clockVars, last_op, scoreVars, rankVars, analysis_cache>>

\* add_message_to_conversation, for the user's message and then for the
\* bot's.
SaveMessage(i) ==
    /\ i \in DOMAIN inv
    /\ inv[i].pc \in {"save_user", "save_assistant"}
    /\ LET role == IF inv[i].pc = "save_user" THEN "user" ELSE "assistant"
           id == inv[i].conversation_id[2]
       IN  /\ conversations' =
                  [conversations EXCEPT
                      ![id].messages = Append(@, [inv |-> i, role |-> role])]
           /\ inv' = [inv EXCEPT ![i].pc = IF role = "user" THEN "save_assistant"
                                           ELSE "reply"]
    /\ UNCHANGED <<state, user_states, appends, users, failures,
                   memVars, log, cacheVars, clockVars, last_op, scoreVars, rankVars,
                   analysis_cache>>

\* The response has been sent, or reply_text raised in the try and in both
\* except clauses; the finally clause runs either way.
Reply(i, fail) ==
    /\ i \in DOMAIN inv
    /\ inv[i].pc = "reply"
    /\ fail => failures < MaxFailures
    /\ failures' = IF fail THEN failures + 1 ELSE failures
    /\ inv' = [inv EXCEPT ![i].pc = "done",
                          ![i].exit = IF fail THEN "transport_failure"
                                      ELSE IF @ = "none" THEN "reply" ELSE @]
    /\ user_states' = ClearWaiting(user_states, inv[i].user_id)
    /\ UNCHANGED <<state, appends, users, conversations,
                   memVars, log, cacheVars, clockVars, last_op, scoreVars, rankVars,
                   analysis_cache>>

NextBot ==
    \/ \E user_id \in BotUsers, message_text \in BotTexts :
          Arrive(user_id, message_text)
    \/ \E user_id \in BotUsers : ArriveStart(user_id)
    \/ \E i \in 1..MaxInvocations : StartUser(i)
    \/ \E i \in 1..MaxInvocations : StartState(i)
    \/ \E i \in 1..MaxInvocations : GetUser(i)
    \/ \E i \in 1..MaxInvocations : ReplyAndReturn(i)
    \/ \E i \in 1..MaxInvocations : Delay(i)
    \/ \E i \in 1..MaxInvocations, fail \in BOOLEAN : CreateConversation(i, fail)
    \/ \E i \in 1..MaxInvocations, response \in BotResponses : Analyse(i, response)
    \/ \E i \in 1..MaxInvocations, fail \in BOOLEAN : StoreShort(i, fail)
    \/ \E i \in 1..MaxInvocations, fail \in BOOLEAN : StoreLong(i, fail)
    \/ \E i \in 1..MaxInvocations : SaveMessage(i)
    \/ \E i \in 1..MaxInvocations, fail \in BOOLEAN : Reply(i, fail)

SpecBot == InitBot /\ [][NextBot]_vars

\* C10: for a single owner, if message A arrived before message B and both
\* were stored, every store append for A precedes every store append for B.
C10_AppendsInArrivalOrder ==
    \A p, q \in DOMAIN appends :
        (/\ inv[appends[p].inv].user_id = inv[appends[q].inv].user_id
         /\ appends[p].inv < appends[q].inv) => p < q

(***************************************************************************)
(* Frame conditions and invariants of the memory system (Spec).            *)
(***************************************************************************)

\* The documents of a collection that belong to a user.
OwnedBy(collection, user_id) ==
    {collection[i] : i \in {j \in DOMAIN collection :
                               collection[j].user_id = user_id}}

\* C11: a memory operation invoked for owner u leaves every other owner's
\* stored records and short-term cache entries unchanged.
C11_OtherOwnersUntouched ==
    [][last_op'.op \in {"store", "context", "cleanup"} =>
          \A v \in Users \ {last_op'.user_id} :
              /\ OwnedBy(db', v) = OwnedBy(db, v)
              /\ CacheOf(short_term_cache', v) = CacheOf(short_term_cache, v)]_vars

\* The document of a collection with a given _id.
DocWithId(collection, oid) ==
    collection[CHOOSE j \in DOMAIN collection : collection[j].id = oid]

\* C12: once a record is created no step changes its owner, tier, text,
\* importance or created_at; last_accessed and access_count are the only
\* fields of an existing record that may differ after a step.
C12_RecordsImmutable ==
    [][\A i \in DOMAIN db :
          Present(db', db[i].id) =>
              LET after == DocWithId(db', db[i].id)
              IN  /\ after.user_id = db[i].user_id
                  /\ after.memory_type = db[i].memory_type
                  /\ after.content = db[i].content
                  /\ after.importance_score = db[i].importance_score
                  /\ after.created_at = db[i].created_at]_vars

\* A read has returned both a short-term and a long-term record some time
\* after they were created, and issued its access updates for them.
C12_Witness ==
    /\ last_op.op = "context" /\ last_op.result
    /\ last_op.short # <<>> /\ last_op.long # <<>>
    /\ \E i \in DOMAIN db : db[i].created_at < now

\* C13: every stored record has an importance within [0, 1], a last_accessed
\* not before its created_at and a non-negative access_count, and no step
\* lowers the last_accessed or the access_count of a record.
C13_RecordInvariants ==
    /\ [](\A i \in DOMAIN db :
             /\ db[i].importance_score >= 0 /\ db[i].importance_score <= 100
             /\ db[i].last_accessed >= db[i].created_at
             /\ db[i].access_count >= 0)
    /\ [][\A i \in DOMAIN db :
             Present(db', db[i].id) =>
                 LET after == DocWithId(db', db[i].id)
                 IN  /\ after.last_accessed >= db[i].last_accessed
                     /\ after.access_count >= db[i].access_count]_vars

\* Records of two creation times are stored, and a read has just returned
\* some of them.
C13_Witness ==
    /\ last_op.op = "context" /\ last_op.result /\ last_op.short # <<>>
    /\ \E i, j \in DOMAIN db : db[i].created_at < db[j].created_at

(***************************************************************************)
(* The ranker's edge cases (SpecRank).                                     *)
(***************************************************************************)

\* C14: when the query shares no keyword with any candidate of the pool,
\* the ranker returns an empty result.
C14_NoOverlapEmptyResult ==
    (/\ ranked[1] = "ok"
     /\ \A k \in DOMAIN all_memories : Overlap(all_memories[k], query) = 0)
        => ranked[2] = <<>>

\* C15: when the owner has no LONG_TERM records the ranker returns an empty
\* sequence, the read still succeeds, and the only access updates issued
\* are those for the short-term records.
C15_EmptyPoolEmptyResult ==
    [][(/\ last_op'.op = "context" /\ last_op'.result
        /\ Matching(db, last_op'.user_id, "long_term") = {})
          => /\ last_op'.long = <<>>
             /\ db' = UpdateAll(db, last_op'.short, now)]_vars

\* A read for an owner who has short-term records but no long-term one has
\* returned the short-term records.
C15_Witness ==
    /\ last_op.op = "context" /\ last_op.result
    /\ last_op.short # <<>> /\ last_op.long = <<>>
    /\ Matching(db, "u", "long_term") = {}
    /\ Matching(db, "u", "short_term") # {}

(***************************************************************************)
(* SpecGraph: TherapyGraph.process_message for one message, node by node:  *)
(* the user analysis node, the response generation node with its two       *)
(* stores, and the two pushes to the conversation document.  state is the  *)
(* TherapyState of the run together with the place the run has reached.    *)
(***************************************************************************)


\* The message carries none of the scorer's signals.
NoSignals(m) ==
    /\ \A k \in HighKeywords \cup MediumKeywords : ~Contains(m.content, k)
    /\ m.emotion_detected = None
    /\ ContentLen(m.content) <= ShortLength
    /\ \A k \in QuestionMarkers : ~Contains(m.content, k)
    /\ \A k \in PersonalPronouns : ~Contains(m.content, k)

\* C17: a message with no high or medium lexicon match, no detected
\* emotion, length at most 100, no interrogative marker and no
\* self-reference marker scores exactly the base value 0.5.
C17_NoSignalsScoresBase ==
    (importance_score[1] = "ok" /\ NoSignals(message)) =>
        importance_score[2] = BaseScore

\* A non-empty message without any signal (a greeting after a stop word)
\* has been scored.
C17_Witness ==
    /\ importance_score[1] = "ok"
    /\ NoSignals(message)
    /\ message.content.words = {"kheyli", "salam"}

\* C18: the longer length threshold's bonus is reachable: once a message
\* longer than 200 characters has been scored, there is a text whose
\* length bonus is the longer threshold's 0.15.
C18_LongerBonusReachable ==
    (importance_score[1] = "ok" /\ ContentLen(message.content) > LongLength) =>
        \E c \in Contents : LengthBonus(ContentLen(c)) = LongLengthBonus

(***************************************************************************)
(* SpecGraph: TherapyGraph.process_message, one message after another:     *)
(* the user analysis node, the response generation node with its two       *)
(* stores, and the two pushes to the conversation document.  state is the  *)
(* TherapyState of the run together with the place the run has reached.    *)
(* Within MaxGraphMessages the message count never reaches a multiple of   *)
(* ten, so should_update_personality answers False in every run.           *)
(***************************************************************************)

MaxGraphMessages == 2

GraphUsers == {"u"}

\* The texts sent: a short one with the phrase narahatam; one without any
\* signal; one that reads as confused; one as excited; one as anxious that
\* gives its reason (chon); one as depressed without the phrase; and one of
\* 32 characters, which asks for a follow-up only on first contact.
GraphTexts ==
    {[words |-> {"kheyli", "narahatam"}, pad |-> 0],
     [words |-> {"salam"}, pad |-> FillerShort],
     [words |-> {"dardsar", "chera"}, pad |-> FillerShort],
     [words |-> {"hayajan"}, pad |-> FillerShort],
     [words |-> {"negaran", "chon"}, pad |-> FillerShort],
     [words |-> {"narahati"}, pad |-> FillerShort],
     [words |-> {"salam", "kheyli", "tanha", "man", "khodam", "dardsar", "chera"},
      pad |-> 0]}

\* _generate_follow_up_question followed by the acknowledgment: the texts
\* random.choice can produce, by their length and the lexicon entries they
\* hold.  An EmotionalState is never 'sad' or 'angry', so of the emotion
\* branches only the one for anxious is taken.
FollowUpTexts(content, emotional_state) ==
    IF emotional_state = "anxious"
    THEN {[words |-> {"negaran"}, pad |-> 36]}
    ELSE IF ContentLen(content) < VagueLength
    THEN {[words |-> {}, pad |-> 43]}
    ELSE {[words |-> {}, pad |-> 39], [words |-> {"ehsas"}, pad |-> 41]}

\* The UserAnalysisResult of the except clause of the analysis node.
MinimalAnalysis(content) ==
    [current_message |-> content, emotional_state |-> "stable",
     context_from_memory |-> 0, requires_follow_up_question |-> FALSE]

\* The UserAnalysisResult of a run of the node that raised nowhere;
\* context_from_memory is the number of context items.
AnalysisResult(content, context) ==
    LET emotional_state == detect_emotional_state(content)
    IN  [current_message |-> content, emotional_state |-> emotional_state,
         context_from_memory |-> Len(context),
         requires_follow_up_question |->
             should_ask_follow_up(content, context, emotional_state)]

\* _generate_follow_up_response
generate_follow_up_response(analysis_result, response_text) ==
    [response_text |-> response_text, requires_follow_up |-> TRUE,
     emotion_detected |-> analysis_result.emotional_state,
     origin |-> "follow_up"]

\* A node whose try does not cover the call: a completion call that raises
\* ends the node with its error response.
generate_therapeutic_unguarded(analysis_result, completion, response_text) ==
    IF completion = "ok"
    THEN [response_text |-> response_text, requires_follow_up |-> FALSE,
          emotion_detected |-> analysis_result.emotional_state,
          origin |-> "completion"]
    ELSE IF completion = "error"
    THEN generate_fallback_response(analysis_result)
    ELSE [response_text |-> [words |-> {}, pad |-> 50],
          requires_follow_up |-> FALSE, emotion_detected |-> None,
          origin |-> "error"]

\* _generate_therapeutic_response.  completion is what became of the call
\* of the completion service: "ok" (success True), "error" (success False:
\* the client caught the failure) or "exception" (the call raised).
generate_therapeutic_response(analysis_result, completion, response_text) ==
    IF completion = "ok"
    THEN [response_text |-> response_text, requires_follow_up |-> FALSE,
          emotion_detected |-> analysis_result.emotional_state,
          origin |-> "completion"]
    ELSE generate_fallback_response(analysis_result)

NoAnalysis == [current_message |-> NoText]
NoResponse == [response_text |-> NoText]

InitGraph ==
    /\ state = [pc |-> "idle"]
    /\ analysis_cache = <<>>
    /\ conversations = <<[user_id |-> "u", messages |-> <<>>]>>
    /\ db = <<>> /\ next_id = 1 /\ calls = <<>> /\ log = <<>>
    /\ short_term_cache = <<>> /\ arrivals = 0
    /\ now = 0 /\ ticks = 0
    /\ last_op = [op |-> None]
    /\ user_states = <<>> /\ inv = <<>> /\ appends = <<>>
    /\ users = {"u"} /\ failures = 0
    /\ ScoreIdle /\ RankIdle

\* process_message is called: the initial TherapyState.
ProcessMessage(user_id, content) ==
    /\ state.pc \in {"idle", "done"}
    /\ arrivals < MaxGraphMessages
    /\ arrivals' = arrivals + 1
    /\ state' = [pc |-> "user_analysis", user_id |-> user_id,
                 current_message |-> content, analysis_result |-> NoAnalysis,
                 therapy_response |-> NoResponse, completion |-> "none",
                 memory_context |-> <<>>, first_id |-> next_id, success |-> FALSE]
    /\ UNCHANGED <<user_states, inv, appends, users, failures, conversations,
                   memVars, log, short_term_cache, clockVars, last_op,
                   scoreVars, rankVars, analysis_cache>>

\* The user analysis node.  `fail` names the call that raises: "user"
\* (get_user, before the memories are read), "conversations"
\* (get_recent_conversations, after they were read and their access
\* updates issued) or "none".  memory_context keeps the ids of the memories
\* get_relevant_context returned, in their order.
UserAnalysis(fail) ==
    /\ state.pc = "user_analysis"
    /\ IF fail = "user"
       THEN /\ UNCHANGED db
            /\ state' = [state EXCEPT
                   !.analysis_result = MinimalAnalysis(state.current_message),
                   !.pc = "response_generation"]
       ELSE \E short \in get_relevant_memories(db, state.user_id, "short_term",
                                               DefaultContextLimit \div 2) :
               LET db1 == UpdateAll(db, short, now)
               IN  \E pool \in get_relevant_memories(db1, state.user_id,
                                                     "long_term", PoolSize) :
                      LET long == RankMemories(pool, state.current_message,
                                               DefaultContextLimit \div 2, now)
                      IN  /\ db' = UpdateAll(db1, long, now)
                          /\ state' = [state EXCEPT
                                 !.analysis_result =
                                     IF fail = "conversations"
                                     THEN MinimalAnalysis(state.current_message)
                                     ELSE AnalysisResult(state.current_message,
                                                         short \o long),
                                 !.memory_context =
                                     [k \in 1..Len(short \o long) |->
                                         (short \o long)[k].id],
                                 !.pc = "response_generation"]
    /\ UNCHANGED <<user_states, inv, appends, users, failures, conversations,
                   next_id, calls, log, cacheVars, clockVars, last_op,
                   scoreVars, rankVars, analysis_cache>>

\* The response generation node up to _store_conversation_memory: the
\* delay, then the follow-up response or the therapeutic one.
ResponseGeneration(completion, response_text) ==
    /\ state.pc = "response_generation"
    /\ LET analysis_result == state.analysis_result
       IN  IF analysis_result.requires_follow_up_question
           THEN /\ completion = "none"
                /\ response_text \in FollowUpTexts(analysis_result.current_message,
                                                   analysis_result.emotional_state)
                /\ state' = [state EXCEPT
                       !.therapy_response =
                           generate_follow_up_response(analysis_result, response_text),
                       !.pc = "store_user"]
           ELSE /\ completion # "none"
                /\ response_text \in BotResponses
                /\ state' = [state EXCEPT
                       !.therapy_response =
                           generate_therapeutic_response(analysis_result, completion,
                                                         response_text),
                       !.completion = completion,
                       !.pc = "store_user"]
    /\ UNCHANGED <<user_states, inv, appends, users, failures, conversations,
                   memVars, log, cacheVars, clockVars, last_op,
                   scoreVars, rankVars, analysis_cache>>

\* The Message of the user that _store_conversation_memory builds.
StoredUserMessage(st) ==
    [UserMessage(st.current_message, now) EXCEPT
        !.emotion_detected = st.therapy_response.emotion_detected]

\* A node that stores the reply where the user's message is due.
StoreReplyFirst(fail) ==
    /\ state.pc = "store_user"
    /\ StoreEffect(state.user_id,
                   AssistantMessage(state.therapy_response.response_text, now), fail)
    /\ state' = [state EXCEPT !.pc = "store_assistant"]
    /\ UNCHANGED <<user_states, inv, appends, users, failures, conversations,
                   calls, log, arrivals, clockVars, last_op, scoreVars, rankVars,
                   analysis_cache>>

\* _store_conversation_memory, the user's message.  store_conversation_memory
\* catches a failing insert and returns False, which nobody reads.
StoreUserMessage(fail) ==
    /\ state.pc = "store_user"
    /\ StoreEffect(state.user_id, StoredUserMessage(state), fail)
    /\ state' = [state EXCEPT !.pc = "store_assistant"]
    /\ UNCHANGED <<user_states, inv, appends, users, failures, conversations,
                   calls, log, arrivals, clockVars, last_op, scoreVars, rankVars,
                   analysis_cache>>

\* _store_conversation_memory, the assistant's message; the node returns.
StoreAssistantMessage(fail) ==
    /\ state.pc = "store_assistant"
    /\ StoreEffect(state.user_id,
                   AssistantMessage(state.therapy_response.response_text, now), fail)
    /\ state' = [state EXCEPT !.pc = "save"]
    /\ UNCHANGED <<user_states, inv, appends, users, failures, conversations,
                   calls, log, arrivals, clockVars, last_op, scoreVars, rankVars,
                   analysis_cache>>

\* The two pushes to the conversation document and the returned dict.  A
\* push that raises ends process_message with success False.
SaveToConversation(fail) ==
    /\ state.pc = "save"
    /\ LET user_message == StoredUserMessage(state)
           bot_message ==
               AssistantMessage(state.therapy_response.response_text, now)
           pushed == IF fail = "user" THEN <<>>
                     ELSE IF fail = "assistant" THEN <<user_message>>
                     ELSE <<user_message, bot_message>>
       IN  conversations' = [conversations EXCEPT ![1].messages = @ \o pushed]
    /\ state' = [state EXCEPT !.pc = "done", !.success = (fail = "none")]
    /\ UNCHANGED <<user_states, inv, appends, users, failures,
                   memVars, log, cacheVars, clockVars, last_op,
                   scoreVars, rankVars, analysis_cache>>

NextGraph ==
    \/ \E user_id \in GraphUsers, content \in GraphTexts :
          ProcessMessage(user_id, content)
    \/ \E fail \in {"none", "user", "conversations"} : UserAnalysis(fail)
    \/ \E completion \in {"none", "ok", "error", "exception"},
          response_text \in BotResponses \cup
              UNION {FollowUpTexts(c, e) : c \in GraphTexts,
                                           e \in {"anxious", "stable"}} :
          ResponseGeneration(completion, response_text)
    \/ \E fail \in {"none", "short", "long"} : StoreUserMessage(fail)
    \/ \E fail \in {"none", "short", "long"} : StoreAssistantMessage(fail)
    \/ \E fail \in {"none", "user", "assistant"} : SaveToConversation(fail)

SpecGraph == InitGraph /\ [][NextGraph]_vars

\* The message "kheyli narahatam".
VerySadText == [words |-> {"kheyli", "narahatam"}, pad |-> 0]

\* C16: the message "kheyli narahatam", processed through the pipeline,
\* receives an importance score of at least 0.65 and is stored as both a
\* SHORT_TERM and a LONG_TERM record.
C16_VerySadStoredInBothTiers ==
    [][(/\ state.pc = "store_user" /\ state'.pc = "store_assistant"
        /\ state.current_message = VerySadText
        /\ short_term_cache' # short_term_cache) =>
          /\ calculate_importance_score(StoredUserMessage(state)) >= 65
          /\ \E i \in 1..Len(Added) : Added[i].memory_type = "short_term"
          /\ \E i \in 1..Len(Added) : Added[i].memory_type = "long_term"]_vars

\* The run has left the response generation step.
Responded == state.pc \in {"store_user", "store_assistant", "save", "done"}

\* C19: whenever the completion call fails (error result or exception)
\* during therapeutic response generation, the reply is the entry of the
\* fixed fallback table for the detected emotional state (the default reply
\* for a state the table does not hold), the run goes on past the node, and
\* a run whose conversation pushes succeed ends with that reply as the
\* pipeline's response.
C19_CompletionFailureFallsBack ==
    (Responded /\ state.completion \in {"error", "exception"}) =>
        LET emotional_state == state.analysis_result.emotional_state
            response == state.therapy_response
            messages == conversations[1].messages
        IN  /\ response.response_text =
                   (IF emotional_state \in FallbackKeys
                    THEN FallbackText(emotional_state)
                    ELSE FallbackText("default"))
            /\ response.emotion_detected = emotional_state
            /\ (state.pc = "done" /\ state.success) =>
                   /\ messages[Len(messages)].role = "assistant"
                   /\ messages[Len(messages)].content = response.response_text

\* The completion call raised for a message read as confused; the run
\* ended with the table's reply for confused pushed to the conversation.
C19_Witness ==
    /\ state.pc = "done" /\ state.success
    /\ state.completion = "exception"
    /\ state.analysis_result.emotional_state = "confused"
    /\ state.therapy_response.response_text = FallbackText("confused")
    /\ Len(conversations[1].messages) >= 2

(***************************************************************************)
(* SpecPersonality: PersonalityAnalyzer.analyze_user_personality, one call *)
(* after another.  state is the frame of the call; analysis_cache and the  *)
(* memory collection outlive it.  Of the five numeric traits, which the    *)
(* code treats alike, the model carries openness, in hundredths.           *)
(***************************************************************************)

MaxAnalyses == 2
MaxAnalysisTicks == 2

MinConversationLength == 50
AnalysisCacheSeconds == 300
InsightScore == 80
HighTrait == 70
LowTrait == 30
DefaultTrait == 50

\* The recent_messages a caller hands over: none; the assistant's alone;
\* one short message of the user; one long message of the user; the long
\* one with the assistant's answer.
AnalysisMessages ==
    LET short == [UserMessage([words |-> {"kheyli", "narahatam"}, pad |-> 0], 0)
                     EXCEPT !.emotion_detected = "depressed"]
        long  == [UserMessage([words |-> {"salam"}, pad |-> FillerShort], 0)
                     EXCEPT !.emotion_detected = "stable"]
        reply == AssistantMessage([words |-> {"salam"}, pad |-> FillerShort], 0)
    IN  {<<>>, <<reply>>, <<short>>, <<long>>, <<long, reply>>}

\* The traits a caller holds: None for a user without any.
CurrentTraits ==
    {<<"none">>, <<"traits", [openness |-> 50, emotional_state |-> "stable"]>>}

\* What json.loads made of the completion's output: the dict and its
\* confidence_level.  The last one names no trait at all.
AnalysisOutputs ==
    {[keys |-> {"openness", "emotional_state"}, openness |-> 90,
      emotional_state |-> "anxious", confidence_level |-> 90],
     [keys |-> {"openness"}, openness |-> 50,
      emotional_state |-> None, confidence_level |-> 50],
     [keys |-> {}, openness |-> 0, emotional_state |-> None,
      confidence_level |-> 50]}

AnalysisClockSteps == {100, 400}

\* The messages of the user among the recent ones, the last twenty.
UserMessagesOf(messages) ==
    LET idx == {i \in DOMAIN messages : messages[i].role = "user"}
    IN  [k \in 1..Cardinality(idx) |->
            messages[CHOOSE i \in idx :
                        Cardinality({j \in idx : j <= i}) = k]]

RECURSIVE PartsLen(_)
\* The characters of the parts: each message's content, the bracketed
\* emotion after it (ten characters around the label), a newline between.
PartsLen(parts) ==
    IF parts = <<>> THEN 0
    ELSE ContentLen(Head(parts).content)
         + (IF Head(parts).emotion_detected # None
            THEN 10 + Len(Head(parts).emotion_detected) ELSE 0)
         + (IF Len(parts) > 1 THEN 1 ELSE 0)
         + PartsLen(Tail(parts))

\* _prepare_conversation_text: the text by its parts.
prepare_conversation_text(messages) == UserMessagesOf(messages)

\* f"{user_id}_{hash(conversation_text[:200])}": the texts here are
\* shorter than 200 characters, so the key is made of the whole text.
CacheKey(user_id, conversation_text) == <<user_id, conversation_text>>

\* The cache holds an entry for the key whose age, by the .seconds of the
\* difference, is under five minutes.
CacheHit(cache, key, t) ==
    /\ key \in DOMAIN cache
    /\ TimedeltaSeconds(t - cache[key].timestamp) < AnalysisCacheSeconds

\* A client that takes an output that is no JSON for an empty analysis.
analyze_lenient(outcome, output) ==
    IF outcome = "error" THEN [success |-> FALSE]
    ELSE [success |-> TRUE,
          traits |-> IF outcome = "ok" THEN output
                     ELSE [keys |-> {}, openness |-> 0, emotional_state |-> None,
                           confidence_level |-> 50]]

\* OpenRouterClient.analyze_personality_traits.  outcome is what became of
\* the request: "ok", "error" (the request raised) or "unparseable" (the
\* output is no JSON).
analyze_personality_traits(outcome, output) ==
    IF outcome = "ok" THEN [success |-> TRUE, traits |-> output]
    ELSE [success |-> FALSE]

\* _weighted_average with the weights in tenths, clamped.
weighted_average(current, new, weight_current, weight_new) ==
    Clamp((current * weight_current + new * weight_new) \div 10)

\* _merge_personality_traits
merge_personality_traits(current, new_analysis) ==
    IF current = <<"none">>
    THEN <<"traits",
           [openness |-> IF "openness" \in new_analysis.keys
                         THEN new_analysis.openness ELSE DefaultTrait,
            emotional_state |-> IF "emotional_state" \in new_analysis.keys
                                THEN new_analysis.emotional_state ELSE "stable"]>>
    ELSE LET confidence == new_analysis.confidence_level
             weight_current == IF confidence > 80 THEN 6
                               ELSE IF confidence < 30 THEN 8 ELSE 7
         IN  <<"traits",
               [openness |->
                    weighted_average(current[2].openness,
                                     IF "openness" \in new_analysis.keys
                                     THEN new_analysis.openness
                                     ELSE current[2].openness,
                                     weight_current, 10 - weight_current),
                emotional_state |->
                    IF "emotional_state" \in new_analysis.keys
                    THEN new_analysis.emotional_state
                    ELSE current[2].emotional_state]>>

\* The insights _store_personality_insights collects from the traits.
Insights(traits) ==
    (IF "openness" \in traits.keys
        /\ (traits.openness > HighTrait \/ traits.openness < LowTrait)
     THEN {"openness"} ELSE {})
    \cup (IF "emotional_state" \in traits.keys THEN {traits.emotional_state} ELSE {})

\* "Personality insights: " followed by the insights.
InsightText(traits) ==
    [words |-> {"personality", "insights"} \cup Insights(traits),
     pad |-> 0, marker |-> FALSE]

InitPersonality ==
    /\ state = [pc |-> "idle"]
    /\ analysis_cache = <<>>
    /\ db = <<>> /\ next_id = 1 /\ calls = <<>> /\ log = <<>>
    /\ short_term_cache = <<>> /\ arrivals = 0
    /\ now = 0 /\ ticks = 0
    /\ last_op = [op |-> None]
    /\ user_states = <<>> /\ inv = <<>> /\ appends = <<>>
    /\ users = {} /\ failures = 0 /\ conversations = <<>>
    /\ ScoreIdle /\ RankIdle

\* analyze_user_personality up to the completion call: the text is
\* prepared; a text under 50 characters returns the caller's traits, a
\* fresh cache entry returns the cached ones.
AnalyzeUserPersonality(user_id, recent_messages, current_traits) ==
    /\ state.pc \in {"idle", "done"}
    /\ arrivals < MaxAnalyses
    /\ arrivals' = arrivals + 1
    /\ LET conversation_text == prepare_conversation_text(recent_messages)
           cache_key == CacheKey(user_id, conversation_text)
           frame == [user_id |-> user_id, current_traits |-> current_traits,
                     cache_key |-> cache_key, before |-> db,
                     text_length |-> PartsLen(conversation_text),
                     outcome |-> "none", output |-> [keys |-> {}]]
       IN  state' =
               IF PartsLen(conversation_text) < MinConversationLength
               THEN frame @@ [pc |-> "done", path |-> "insufficient",
                              result |-> current_traits]
               ELSE IF CacheHit(analysis_cache, cache_key, now)
               THEN frame @@ [pc |-> "done", path |-> "cached",
                              result |-> analysis_cache[cache_key].traits]
               ELSE frame @@ [pc |-> "analyze", path |-> "none",
                              result |-> <<"none">>]
    /\ UNCHANGED <<analysis_cache, memVars, log, short_term_cache, clockVars,
                   last_op, user_states, inv, appends, users, failures,
                   conversations, scoreVars, rankVars>>

\* The completion call returns: a failure returns the caller's traits; a
\* success merges, caches, and goes on to store the insights if there are
\* any.
AnalysisReturns(outcome, output) ==
    /\ state.pc = "analyze"
    /\ LET analysis_result == analyze_personality_traits(outcome, output)
       IN  IF ~analysis_result.success
           THEN /\ state' = [state EXCEPT !.pc = "done", !.path = "failed",
                                          !.outcome = outcome,
                                          !.result = state.current_traits]
                /\ UNCHANGED analysis_cache
           ELSE LET updated_traits ==
                        merge_personality_traits(state.current_traits,
                                                 analysis_result.traits)
                IN  /\ analysis_cache' =
                           [k \in DOMAIN analysis_cache \cup {state.cache_key} |->
                               IF k = state.cache_key
                               THEN [traits |-> updated_traits, timestamp |-> now]
                               ELSE analysis_cache[k]]
                    /\ state' = [state EXCEPT
                           !.pc = IF Insights(analysis_result.traits) # {}
                                  THEN "store_insights" ELSE "done",
                           !.path = "analysed",
                           !.outcome = outcome,
                           !.output = output,
                           !.result = updated_traits]
    /\ UNCHANGED <<memVars, log, cacheVars, clockVars, last_op, user_states, inv,
                   appends, users, failures, conversations, scoreVars, rankVars>>

\* _store_personality_insights: one long-term document of importance 0.8;
\* a failing insert is caught.  The updated traits are returned.
StoreInsights(fail) ==
    /\ state.pc = "store_insights"
    /\ IF fail
       THEN UNCHANGED <<db, next_id>>
       ELSE /\ db' = store_memory(db, ObjectId(next_id), state.user_id,
                                  InsightText(state.output), "long_term",
                                  InsightScore, now)
            /\ next_id' = next_id + 1
    /\ state' = [state EXCEPT !.pc = "done"]
    /\ UNCHANGED <<analysis_cache, calls, log, cacheVars, clockVars, last_op,
                   user_states, inv, appends, users, failures, conversations,
                   scoreVars, rankVars>>

\* Time passes between two calls.
AnalysisTick ==
    /\ state.pc \in {"idle", "done"}
    /\ ticks < MaxAnalysisTicks
    /\ \E d \in AnalysisClockSteps : now' = now + d
    /\ ticks' = ticks + 1
    /\ UNCHANGED <<state, analysis_cache, memVars, log, cacheVars, last_op,
                   user_states, inv, appends, users, failures, conversations,
                   scoreVars, rankVars>>

NextPersonality ==
    \/ \E user_id \in GraphUsers, recent_messages \in AnalysisMessages,
          current_traits \in CurrentTraits :
          AnalyzeUserPersonality(user_id, recent_messages, current_traits)
    \/ \E outcome \in {"ok", "error", "unparseable"}, output \in AnalysisOutputs :
          AnalysisReturns(outcome, output)
    \/ \E fail \in BOOLEAN : StoreInsights(fail)
    \/ AnalysisTick

SpecPersonality == InitPersonality /\ [][NextPersonality]_vars

\* C20: analyze_user_personality returns the caller's current traits
\* unchanged, and appends no personality-insight record to the store, when
\* the prepared conversation text is shorter than 50 characters, when the
\* completion service fails, and when the completion output is not
\* parseable JSON.
C20_NoOpCasesKeepTraits ==
    (/\ state.pc = "done"
     /\ \/ state.text_length < MinConversationLength
        \/ state.outcome \in {"error", "unparseable"}) =>
        /\ state.result = state.current_traits
        /\ db = state.before

\* After a call that stored an insight record, a call on the same text,
\* past the cache's five minutes, met an unparseable output: it returned
\* the caller's traits and the store still holds the one record.
C20_Witness ==
    /\ state.pc = "done"
    /\ state.outcome = "unparseable"
    /\ state.text_length >= MinConversationLength
    /\ state.current_traits # <<"none">>
    /\ state.result = state.current_traits
    /\ Len(db) = 1
    /\ state.cache_key \in DOMAIN analysis_cache

(***************************************************************************)
(* Failures, order and bounds of the context read (Spec).                  *)
(***************************************************************************)

\* C21: when a persistence call fails, the public memory operations return
\* their degraded value: get_relevant_context the empty list,
\* store_conversation_memory False, cleanup_old_memories nothing.
C21_FailureGivesDegradedValue ==
    [][/\ (last_op'.op = "context" /\ last_op'.failed # "none") =>
              (last_op'.short = <<>> /\ last_op'.long = <<>>)
       /\ (last_op'.op = "store" /\ short_term_cache' = short_term_cache) =>
              ~last_op'.result]_vars

\* C22: the short-term part of the context lists the owner's short-term
\* records most-recent-first: the limit//2 most recently created ones, in
\* decreasing order of creation time, whatever their importance scores.
C22_ShortPartMostRecentFirst ==
    [][(last_op'.op = "context" /\ last_op'.result) =>
          LET short == last_op'.short
              mine  == Matching(db, last_op'.user_id, "short_term")
              ids   == {short[k].id : k \in DOMAIN short}
          IN  /\ Len(short) = Min(last_op'.limit \div 2, Cardinality(mine))
              /\ \A k \in 1..(Len(short) - 1) :
                    short[k].created_at >= short[k + 1].created_at
              /\ \A i \in mine :
                    Memory(db[i]).id \notin ids =>
                        \A k \in DOMAIN short :
                            short[k].created_at >= db[i].created_at]_vars

\* C23: get_relevant_context(limit) returns at most limit items: at most
\* limit//2 'Recent:' items followed by at most limit//2 'Background:'
\* items, every 'Recent:' item before every 'Background:' item; a side with
\* fewer records does not enlarge the other.
C23_HalvesBoundedShortFirst ==
    last_op.op = "context" =>
        LET items  == last_op.items
            half   == last_op.limit \div 2
            recent == {k \in DOMAIN items : items[k][1] = "Recent"}
            back   == {k \in DOMAIN items : items[k][1] = "Background"}
        IN  /\ Len(items) <= last_op.limit
            /\ recent \cup back = DOMAIN items
            /\ Cardinality(recent) <= half
            /\ Cardinality(back) <= half
            /\ \A i \in recent, j \in back : i < j

\* A read with limit 2 by a user with two records in each tier returned one
\* 'Recent:' item followed by one 'Background:' item.
C23_Witness ==
    /\ last_op.op = "context" /\ last_op.limit = 2
    /\ Cardinality(Matching(db, last_op.user_id, "short_term")) = 2
    /\ Cardinality(Matching(db, last_op.user_id, "long_term")) = 2
    /\ Len(last_op.items) = 2
    /\ last_op.items[1][1] = "Recent"
    /\ last_op.items[2][1] = "Background"

\* The long-term documents a step appended.
AddedLongTerm ==
    {Added[i].content : i \in {j \in 1..Len(Added) :
                                   Added[j].memory_type = "long_term"}}

\* The number of characters of the message's text in a summary.
TextChars(m, summary) ==
    (ContentLen(m.content) - m.content.pad) + summary.pad

\* C24: the long-term summary of a message holds the message text verbatim
\* when it is at most 200 characters long, and otherwise exactly its first
\* 200 characters followed by the marker '...'; never more than 200
\* characters of the text.
C24_SummaryCutAtCap ==
    [][last_op'.op = "store" =>
          \A summary \in AddedLongTerm :
              LET m == last_op'.message
              IN  /\ m.content.words \subseteq summary.words
                  /\ TextChars(m, summary) <= SummaryCap
                  /\ IF ContentLen(m.content) <= SummaryCap
                     THEN summary.pad = m.content.pad /\ ~summary.marker
                     ELSE TextChars(m, summary) = SummaryCap /\ summary.marker]_vars

\* The collection holds the summary of a message of exactly 200 characters,
\* uncut, and the summary of a longer one, cut and marked.
C24_Witness ==
    /\ \E i \in DOMAIN db :
          /\ db[i].memory_type = "long_term"
          /\ db[i].content.pad = SummaryCap - 7 /\ ~db[i].content.marker
    /\ \E i \in DOMAIN db :
          /\ db[i].memory_type = "long_term"
          /\ db[i].content.pad < FillerLong /\ db[i].content.marker

(***************************************************************************)
(* The per-user gate and the conversation of a user (SpecBot).             *)
(***************************************************************************)

\* The invocation has passed the waiting_for_response check and has not
\* returned.
PastGate(f) ==
    /\ f.handler = "handle_message"
    /\ f.pc \in {"typing", "create_conversation", "analyse", "store_short",
                 "store_long", "save_user", "save_assistant", "reply"}

\* C25: at no time are two handle_message invocations of one user past the
\* waiting_for_response check together, whatever the interleaving, a
\* rejected message finishing while an earlier one is in progress included.
C25_OnePastGatePerUser ==
    \A i, j \in DOMAIN inv :
        (/\ i # j
         /\ inv[i].user_id = inv[j].user_id
         /\ PastGate(inv[i])) => ~PastGate(inv[j])

\* A handle_message invocation of the user has been entered and has not
\* returned.
InProgress(user_id) ==
    \E i \in DOMAIN inv :
        /\ inv[i].handler = "handle_message"
        /\ inv[i].user_id = user_id
        /\ inv[i].pc # "done"

\* C26: whenever no handle_message invocation of a user is in progress, the
\* user's waiting_for_response flag is False: every invocation that set
\* the flag clears it on every exit path (normal reply, graph failure,
\* transport failure).
C26_NoLockout ==
    \A user_id \in BotUsers :
        ~InProgress(user_id) => ~WaitingForResponse(user_states, user_id)

\* Every invocation has returned: one by a normal reply, one after a failure
\* in the graph's try block and one after reply_text raised.
C26_Witness ==
    /\ Len(inv) = MaxInvocations
    /\ \A i \in DOMAIN inv : inv[i].handler = "handle_message" /\ inv[i].pc = "done"
    /\ \E i \in DOMAIN inv : inv[i].exit = "reply"
    /\ \E i \in DOMAIN inv : inv[i].exit = "graph_failure"
    /\ \E i \in DOMAIN inv : inv[i].exit = "transport_failure"

\* The conversations created for the user.
ConversationsOf(user_id) ==
    {c \in DOMAIN conversations : conversations[c].user_id = user_id}

\* C27: within one bot process handle_message creates at most one
\* conversation per user: after the first accepted message every later
\* message of the user reuses the same conversation_id, under any
\* interleaving of the user's messages.
C27_OneConversationPerUser ==
    \A user_id \in BotUsers : Cardinality(ConversationsOf(user_id)) <= 1

(***************************************************************************)
(* The importance level of a score.                                        *)
(***************************************************************************)

HighImportance == 70
MediumImportance == 40

\* A conversion that leaves the upper threshold itself at MEDIUM.
score_to_level_strict(score) ==
    IF score > HighImportance THEN "high"
    ELSE IF score >= MediumImportance THEN "medium"
    ELSE "low"

\* _score_to_importance_level: >= 0.7 HIGH, >= 0.4 MEDIUM, else LOW.
score_to_importance_level(score) ==
    IF score >= HighImportance THEN "high"
    ELSE IF score >= MediumImportance THEN "medium"
    ELSE "low"

\* C28: the importance score is never below the base value 0.5, so
\* _score_to_importance_level never yields LOW, and a message is stored at
\* LONG_TERM exactly when its importance level is HIGH.
C28_NeverLowLongTermIffHigh ==
    importance_score[1] = "ok" =>
        LET score == importance_score[2]
        IN  /\ score >= BaseScore
            /\ score_to_importance_level(score) # "low"
            /\ IsLongTerm(score) <=> score_to_importance_level(score) = "high"

\* A message was scored at the threshold itself: HIGH, and long-term.
C28_Witness ==
    /\ importance_score = <<"ok", LongTermThreshold>>
    /\ score_to_importance_level(importance_score[2]) = "high"
    /\ IsLongTerm(importance_score[2])

(***************************************************************************)
(* The order of the appends and the cache update.                          *)
(***************************************************************************)

\* The step is a call of store_conversation_memory.
StoreStep == arrivals' = arrivals + 1

\* The step added an entry to the user's cache list.
CacheGrew(user_id) ==
    Len(CacheOf(short_term_cache', user_id)) > Len(CacheOf(short_term_cache, user_id))

\* C29: the short-term cache is written only after the durable appends
\* succeed.  In store_conversation_memory the SHORT_TERM append precedes
\* the LONG_TERM append, which precedes the cache update; if either append
\* fails the cache is left unchanged and the call returns False, so every
\* cache entry is of a message whose SHORT_TERM record was appended.
C29_CacheAfterAppends ==
    [][/\ StoreStep =>
            LET m == last_op'.message
                score == last_op'.score
                expected == IF IsLongTerm(score) THEN 2 ELSE 1
            IN  /\ last_op'.result <=> Len(Added) = expected
                /\ ~last_op'.result => UNCHANGED short_term_cache
                /\ Len(Added) >= 1 =>
                      /\ Added[1].memory_type = "short_term"
                      /\ Added[1].content = short_term_content(m)
                /\ \A k \in DOMAIN Added :
                      Added[k].memory_type = "long_term" => k = 2
       /\ \A user_id \in Users :
            CacheGrew(user_id) =>
                /\ StoreStep
                /\ last_op'.result
                /\ last_op'.user_id = user_id
                /\ Added[1].user_id = user_id
                /\ Added[1].memory_type = "short_term"
                /\ short_term_cache'[user_id][Len(short_term_cache'[user_id])]
                       = CacheEntry(last_op'.message, last_op'.score)
      ]_vars

\* The user's first store succeeded and the long-term append of the second
\* failed: two short-term records, one cache entry, and the call returned
\* False.
C29_Witness ==
    /\ last_op.op = "store"
    /\ ~last_op.result
    /\ last_op.user_id = "u"
    /\ Cardinality(Matching(db, "u", "short_term")) = 2
    /\ Len(CacheOf(short_term_cache, "u")) = 1

(***************************************************************************)
(* The order of retrieval and storage within one pipeline (SpecGraph).     *)
(***************************************************************************)

\* The positions of the collection that the pipeline in progress appended.
PipelineRecords == {i \in DOMAIN db : db[i].id[2] >= state.first_id}

\* The short-term records of a role: their content starts with the role.
OfRole(i, role) == db[i].memory_type = "short_term" /\ role \in db[i].content.words

\* C30: within one message pipeline, get_relevant_context (in the analysis
\* node) completes before any memory record of that message is appended (in
\* the response node), and the record of the user's message is appended
\* before the record of the assistant's reply; so, with one pipeline running
\* for the owner, a message never appears in the context used to answer it.
C30_RetrievalBeforeStorage ==
    state.pc # "idle" =>
        /\ state.pc \in {"user_analysis", "response_generation", "store_user"}
              => PipelineRecords = {}
        /\ state.pc = "store_assistant"
              => \A i \in PipelineRecords : ~OfRole(i, "assistant")
        /\ \A i, j \in PipelineRecords :
              OfRole(i, "user") /\ OfRole(j, "assistant") => i < j
        /\ \A k \in DOMAIN state.memory_context :
              state.memory_context[k][2] < state.first_id

\* The second pipeline of the owner has finished: its context held records
\* of the first, and it appended a record of the message and one of the
\* reply.
C30_Witness ==
    /\ state.pc = "done"
    /\ arrivals = 2
    /\ state.memory_context # <<>>
    /\ \E i, j \in PipelineRecords : OfRole(i, "user") /\ OfRole(j, "assistant")

====
